---- MODULE Spec2Model ----
(***************************************************************************)
(* Model of the paper metadata extractor and keyword matcher of            *)
(* "Astro Project 1/main.py".  Python strings are TLA+ strings; a character *)
(* is a string of length one.  The footnote star U+2605 is written "^",     *)
(* which occurs nowhere else in the inputs.                                 *)
(***************************************************************************)
EXTENDS Integers, Sequences, FiniteSets, TLC

(***************************************************************************)
(* Python str primitives                                                   *)
(***************************************************************************)
\* s[a-1:b] for 1 <= a, clipped to the string as a Python slice is
Slice(s, a, b) ==
    IF a > b \/ a > Len(s) THEN ""
    ELSE SubSeq(s, a, IF b > Len(s) THEN Len(s) ELSE b)

Char(s, i) == Slice(s, i, i)

Digits == {"0", "1", "2", "3", "4", "5", "6", "7", "8", "9"}

UpperChars == "ABCDEFGHIJKLMNOPQRSTUVWXYZ"

LowerChars == "abcdefghijklmnopqrstuvwxyz"

IsSpace(c) == c \in {" ", "\n", "\t", "\r"}

IsDigit(c) == c \in Digits

UpperSet == {Char(UpperChars, k) : k \in 1..26}

LowerSet == {Char(LowerChars, k) : k \in 1..26}

ToLower == [c \in UpperSet |-> Char(LowerChars, CHOOSE k \in 1..26 : Char(UpperChars, k) = c)]

ToUpper == [c \in LowerSet |-> Char(UpperChars, CHOOSE k \in 1..26 : Char(LowerChars, k) = c)]

IsUpperChar(c) == c \in UpperSet

IsLowerChar(c) == c \in LowerSet

LowerChar(c) == IF IsUpperChar(c) THEN ToLower[c] ELSE c

UpperChar(c) == IF IsLowerChar(c) THEN ToUpper[c] ELSE c

\* str.lower() and str.upper(), character by character (the string is halved to keep
\* the evaluation shallow)
RECURSIVE lower(_)
lower(s) ==
    IF Len(s) <= 1 THEN LowerChar(s)
    ELSE lower(Slice(s, 1, Len(s) \div 2)) \o lower(Slice(s, Len(s) \div 2 + 1, Len(s)))

RECURSIVE upper(_)
upper(s) ==
    IF Len(s) <= 1 THEN UpperChar(s)
    ELSE upper(Slice(s, 1, Len(s) \div 2)) \o upper(Slice(s, Len(s) \div 2 + 1, Len(s)))

\* str.isupper(): at least one cased character and no lowercase one
isupper(s) ==
    /\ \E i \in 1..Len(s) : IsUpperChar(Char(s, i))
    /\ \A i \in 1..Len(s) : ~IsLowerChar(Char(s, i))

\* s[:n]
Prefix(s, n) == Slice(s, 1, n)

\* s[n:] with n counted from 0
Suffix(s, n) == Slice(s, n + 1, Len(s))

startswith(s, p) == Len(s) >= Len(p) /\ Slice(s, 1, Len(p)) = p

\* any(char.isdigit() for char in s[:n])
DigitInPrefix(s, n) == \E i \in 1..Len(Prefix(s, n)) : IsDigit(Char(s, i))

Min(S) == CHOOSE p \in S : \A q \in S : p <= q

Max(S) == CHOOSE p \in S : \A q \in S : p >= q

\* s.strip(): from the first to the last character that is not white space
strip(s) ==
    LET solid == {i \in 1..Len(s) : ~IsSpace(Char(s, i))} IN
    IF solid = {} THEN "" ELSE Slice(s, Min(solid), Max(solid))

\* s.find(sub, from): least position p >= from (1-based) at which sub occurs, 0 if none
find(s, sub, from) ==
    LET hits == {p \in from..(Len(s) - Len(sub) + 1) : Slice(s, p, p + Len(sub) - 1) = sub} IN
    IF hits = {} THEN 0 ELSE Min(hits)

\* sub in s
in(sub, s) == find(s, sub, 1) # 0

\* s.split(sep), sep non-empty
RECURSIVE split(_, _)
split(s, sep) ==
    LET p == find(s, sep, 1) IN
    IF p = 0 THEN <<s>>
    ELSE <<Slice(s, 1, p - 1)>> \o split(Slice(s, p + Len(sep), Len(s)), sep)

\* s.replace(old, ""), old non-empty: every non-overlapping occurrence, left to right
RECURSIVE remove(_, _)
remove(s, old) ==
    LET p == find(s, old, 1) IN
    IF p = 0 THEN s
    ELSE Slice(s, 1, p - 1) \o remove(Slice(s, p + Len(old), Len(s)), old)

\* sep.join(parts)
RECURSIVE join(_, _)
join(sep, parts) ==
    IF parts = <<>> THEN ""
    ELSE IF Len(parts) = 1 THEN parts[1]
    ELSE parts[1] \o sep \o join(sep, Tail(parts))

\* [a.strip() for a in seq]
strip_all(seq) == [i \in 1..Len(seq) |-> strip(seq[i])]

\* [kw.lower() for kw in seq]
lower_all(seq) == [i \in 1..Len(seq) |-> lower(seq[i])]

(***************************************************************************)
(* The regular expressions of load_paper, each by what it matches          *)
(***************************************************************************)
\* the characters \s matches
Spaces == {" ", "\n", "\t", "\r"}

\* least index >= i whose character is not in the set S (Len(s) + 1 if none): the end
\* of a greedy run [S]* that starts at i
SkipIn(s, i, S) ==
    IF i > Len(s) THEN i
    ELSE CHOOSE j \in i..(Len(s) + 1) :
            /\ j = Len(s) + 1 \/ Char(s, j) \notin S
            /\ \A k \in i..(j - 1) : Char(s, k) \in S

\* the same for a run of characters outside S
SkipNotIn(s, i, S) ==
    IF i > Len(s) THEN i
    ELSE CHOOSE j \in i..(Len(s) + 1) :
            /\ j = Len(s) + 1 \/ Char(s, j) \in S
            /\ \A k \in i..(j - 1) : Char(s, k) \notin S

\* re.sub(r'\S+@\S+', '', s): a maximal run of non-blanks is matched, from its
\* first character to its last, exactly when an "@" stands strictly inside it
RECURSIVE sub_email(_)
sub_email(s) ==
    IF s = "" THEN ""
    ELSE IF IsSpace(Char(s, 1))
    THEN Slice(s, 1, SkipIn(s, 1, Spaces) - 1) \o sub_email(Suffix(s, SkipIn(s, 1, Spaces) - 1))
    ELSE LET e == SkipNotIn(s, 1, Spaces)
             tok == Slice(s, 1, e - 1)
             hit == \E q \in 2..(Len(tok) - 1) : Char(tok, q) = "@"
         IN (IF hit THEN "" ELSE tok) \o sub_email(Suffix(s, e - 1))

\* the characters [-\d\s] matches
OrcidTail == {"-"} \cup Digits \cup Spaces

\* re.sub(r'ORCID:\s*\d+[-\d\s]*', '', s)
RECURSIVE sub_orcid(_)
sub_orcid(s) ==
    LET p == find(s, "ORCID:", 1) IN
    IF p = 0 THEN s
    ELSE LET a == SkipIn(s, p + 6, Spaces)
             b == SkipIn(s, a, Digits)
             c == SkipIn(s, b, OrcidTail)
         IN IF b = a
            THEN Slice(s, 1, p + 5) \o sub_orcid(Suffix(s, p + 5))
            ELSE Slice(s, 1, p - 1) \o sub_orcid(Suffix(s, c - 1))

\* end (exclusive) of a match of r',\s*and\s*|,\s*|\s+and\s+' starting at i, 0 if none
SepEnd(s, i) ==
    IF Char(s, i) = ","
    THEN LET a == SkipIn(s, i + 1, Spaces) IN
         IF Slice(s, a, a + 2) = "and" THEN SkipIn(s, a + 3, Spaces) ELSE a
    ELSE IF IsSpace(Char(s, i))
    THEN LET a == SkipIn(s, i, Spaces) IN
         IF Slice(s, a, a + 2) = "and" /\ a + 3 <= Len(s) /\ IsSpace(Char(s, a + 3))
         THEN SkipIn(s, a + 3, Spaces) ELSE 0
    ELSE 0

\* re.split(r',\s*and\s*|,\s*|\s+and\s+', s) of the text from position from on
RECURSIVE split_authors_from(_, _)
split_authors_from(s, from) ==
    LET ends == [i \in from..Len(s) |-> SepEnd(s, i)]
        seps == {i \in from..Len(s) : ends[i] # 0}
    IN IF seps = {} THEN <<Slice(s, from, Len(s))>>
       ELSE <<Slice(s, from, Min(seps) - 1)>> \o split_authors_from(s, ends[Min(seps)])

split_authors(s) == split_authors_from(s, 1)

\* re.sub(r'[\d★*]', '', s)
RECURSIVE sub_marks(_)
sub_marks(s) ==
    IF Len(s) <= 1 THEN (IF IsDigit(s) \/ s \in {"^", "*"} THEN "" ELSE s)
    ELSE sub_marks(Slice(s, 1, Len(s) \div 2)) \o sub_marks(Slice(s, Len(s) \div 2 + 1, Len(s)))

\* re.match(r'^\d+\s+(INTRODUCTION|Introduction|INTRO)', s)
match_intro(s) ==
    LET a == SkipIn(s, 1, Digits)
        b == SkipIn(s, a, Spaces)
        rest == Slice(s, b, Len(s))
    IN /\ a > 1
       /\ b > a
       /\ \/ startswith(rest, "INTRODUCTION")
          \/ startswith(rest, "Introduction")
          \/ startswith(rest, "INTRO")

\* (?i) \d+\s+(?:INTRODUCTION|Introduction|INTRO) matches at position p of s
look_intro(s, p) ==
    /\ IsDigit(Char(s, p))
    /\ LET a == SkipIn(s, p, Digits)
           b == SkipIn(s, a, Spaces)
       IN b > a /\ lower(Slice(s, b, b + 4)) = "intro"

\* (?i) Keywords|Key words matches at position p of s
look_keywords(s, p) ==
    /\ Char(s, p) \in {"k", "K"}
    /\ \/ lower(Slice(s, p, p + 7)) = "keywords"
       \/ lower(Slice(s, p, p + 8)) = "key words"

\* $ matches at position p of s: at the end, or before a final newline
look_end(s, p) ==
    \/ p = Len(s) + 1
    \/ p = Len(s) /\ Char(s, p) = "\n"

\* the lookahead of the named pattern matches at position p of s: the numbered
\* introduction heading, or Keywords|Key words (abstract), or $ (keywords)
look(pattern, s, p) ==
    \/ look_intro(s, p)
    \/ IF pattern = "abstract" THEN look_keywords(s, p) ELSE look_end(s, p)

\* the characters [:\s] matches
ColonOrSpace == {":"} \cup Spaces

NoMatch == <<>>

\* group 1 of  label [:\s]* (.+?) (?=look): label ends before position e.  The greedy
\* [:\s]* run gives back at most its last character, since the lookahead cannot
\* start inside the run
lazy_group(s, e, pattern) ==
    LET r == SkipIn(s, e, ColonOrSpace)
        hits == {p \in r..(Len(s) + 1) : look(pattern, s, p)}
        ends == hits \ {r}
    IN IF ends # {}
       THEN <<Slice(s, r, Min(ends) - 1)>>
       ELSE IF r > e /\ r \in hits THEN <<Char(s, r - 1)>>
       ELSE NoMatch

\* re.search(r'(?i)abstract[:\s]*(.+?)(?=\d+\s+(?:INTRODUCTION|Introduction|INTRO)|Keywords|Key words)',
\*           content, re.DOTALL); a later "abstract" cannot match when the first cannot
search_abstract(s) ==
    LET a == find(lower(s), "abstract", 1) IN
    IF a = 0 THEN NoMatch ELSE lazy_group(s, a + 8, "abstract")

\* re.search(r'(?i)(?:Keywords|Key words)[:\s]*(.+?)(?=\d+\s+(?:INTRODUCTION|Introduction|INTRO)|$)',
\*           content, re.DOTALL)
search_keywords(s) ==
    LET low == lower(s)
        k1 == find(low, "keywords", 1)
        k2 == find(low, "key words", 1)
        e == IF k2 = 0 \/ (k1 # 0 /\ k1 < k2) THEN k1 + 8 ELSE k2 + 9
    IN IF k1 = 0 /\ k2 = 0 THEN NoMatch ELSE lazy_group(s, e, "keywords")

(***************************************************************************)
(* Paper.load_paper                                                        *)
(***************************************************************************)
\* author_start_idx = None
None == -1

\* lines[:20]: the lines that decide the format and that the title scan reads
HeadLines == 20

\* the fields as Paper.__init__ sets them before it calls load_paper
EmptyPaper == [title |-> "", authors |-> <<>>, category |-> "", abstract |-> ""]

NonEmpty(s) == s # ""

\* has_labels with the [:20] slice forgotten
has_labels_any_line(lines) ==
    \E i \in 1..Len(lines) : startswith(strip(lines[i]), "Title:")

\* any(line.strip().startswith("Title:") for line in lines[:20])
has_labels(lines) ==
    \E i \in 1..Len(lines) : i <= HeadLines /\ startswith(strip(lines[i]), "Title:")

\* [a.strip() for a in authors_str.split(",") if a.strip()]
labeled_authors(authors_str) == SelectSeq(strip_all(split(authors_str, ",")), NonEmpty)

\* one pass of the loop over the lines of a labeled file
labeled_line(p, rawline) ==
    LET line == strip(rawline) IN
    IF startswith(line, "Title:")
    THEN [p EXCEPT !.title = strip(remove(line, "Title:"))]
    ELSE IF startswith(line, "Authors:")
    THEN [p EXCEPT !.authors = labeled_authors(strip(remove(line, "Authors:")))]
    ELSE IF startswith(line, "Category:")
    THEN [p EXCEPT !.category = strip(remove(line, "Category:"))]
    ELSE p

RECURSIVE labeled_lines(_, _, _)
labeled_lines(p, lines, i) ==
    IF i > Len(lines) THEN p ELSE labeled_lines(labeled_line(p, lines[i]), lines, i + 1)

\* content.split("Abstract:")[1].strip() if "Abstract:" in content else ""
labeled_abstract(content) ==
    IF in("Abstract:", content) THEN strip(split(content, "Abstract:")[2]) ELSE ""

labeled_path(content, lines) ==
    [labeled_lines(EmptyPaper, lines, 1) EXCEPT !.abstract = labeled_abstract(content)]

\* is_header with the test for upper-case lines left out
is_header_words_only(stripped) ==
    LET low == lower(stripped) IN
    \E w \in {"preprint", "doi:", "accepted", "received"} : in(w, low)

\* header lines the title scan skips
is_header(stripped) ==
    \/ isupper(stripped)
    \/ LET low == lower(stripped) IN
       \E w \in {"preprint", "doi:", "accepted", "received"} : in(w, low)

\* title_scan over every line of the file instead of lines[:20]
RECURSIVE title_scan_all_lines(_, _, _)
title_scan_all_lines(lines, i, title_lines) ==
    IF i >= Len(lines) THEN [title |-> "", author_start_idx |-> None]
    ELSE LET stripped == strip(lines[i + 1]) IN
         IF stripped = "" \/ Len(stripped) < 10 THEN title_scan_all_lines(lines, i + 1, title_lines)
         ELSE IF is_header(stripped) THEN title_scan_all_lines(lines, i + 1, title_lines)
         ELSE IF ~DigitInPrefix(stripped, 5) /\ ~startswith(stripped, "*")
         THEN title_scan_all_lines(lines, i + 1, Append(title_lines, stripped))
         ELSE [title |-> strip(join(" ", title_lines)), author_start_idx |-> i]

\* the loop over enumerate(lines[:20]); i is the 0-based index of the source
RECURSIVE title_scan(_, _, _)
title_scan(lines, i, title_lines) ==
    IF i >= Len(lines) \/ i >= HeadLines THEN [title |-> "", author_start_idx |-> None]
    ELSE LET stripped == strip(lines[i + 1]) IN
         IF stripped = "" \/ Len(stripped) < 10 THEN title_scan(lines, i + 1, title_lines)
         ELSE IF is_header(stripped) THEN title_scan(lines, i + 1, title_lines)
         ELSE IF ~DigitInPrefix(stripped, 5) /\ ~startswith(stripped, "*")
         THEN title_scan(lines, i + 1, Append(title_lines, stripped))
         ELSE [title |-> strip(join(" ", title_lines)), author_start_idx |-> i]

\* potential_title reading two lines further than position 5
RECURSIVE potential_title_longer(_, _)
potential_title_longer(lines, i) ==
    IF i >= 8 \/ i >= Len(lines) THEN <<>>
    ELSE LET stripped == strip(lines[i + 1]) IN
         IF stripped # "" /\ Len(stripped) > 10
         THEN IF DigitInPrefix(stripped, 5) \/ in("@", stripped) THEN <<>>
              ELSE <<stripped>> \o potential_title_longer(lines, i + 1)
         ELSE potential_title_longer(lines, i + 1)

\* the loop over range(1, min(6, len(lines)))
RECURSIVE potential_title(_, _)
potential_title(lines, i) ==
    IF i >= 6 \/ i >= Len(lines) THEN <<>>
    ELSE LET stripped == strip(lines[i + 1]) IN
         IF stripped # "" /\ Len(stripped) > 10
         THEN IF DigitInPrefix(stripped, 5) \/ in("@", stripped) THEN <<>>
              ELSE <<stripped>> \o potential_title(lines, i + 1)
         ELSE potential_title(lines, i + 1)

\* "if not self.title and len(lines) > 2"
title_fallback_runs(title, lines) == title = "" /\ Len(lines) > 2

title_fallback(title, lines) ==
    IF title_fallback_runs(title, lines)
    THEN LET found == potential_title(lines, 1) IN
         IF found # <<>> THEN strip(join(" ", found)) ELSE title
    ELSE title

is_affiliation(stripped) ==
    LET low == lower(stripped) IN
    \E w \in {"department", "university", "institute", "school"} : in(w, low)

\* collect_author_lines with a break at every line that satisfies no author condition
RECURSIVE collect_author_lines_break(_, _, _)
collect_author_lines_break(lines, i, stop) ==
    IF i >= stop \/ i >= Len(lines) THEN <<>>
    ELSE LET stripped == strip(lines[i + 1]) IN
         IF stripped = "" THEN <<>>
         ELSE IF DigitInPrefix(stripped, 10) \/ in("@", stripped) \/ in("*", stripped)
         THEN <<stripped>> \o collect_author_lines_break(lines, i + 1, stop)
         ELSE IF startswith(stripped, "1") \/ startswith(stripped, "*")
         THEN <<stripped>> \o collect_author_lines_break(lines, i + 1, stop)
         ELSE <<>>

\* the loop over range(author_start_idx, min(author_start_idx + 10, len(lines)))
RECURSIVE collect_author_lines(_, _, _)
collect_author_lines(lines, i, stop) ==
    IF i >= stop \/ i >= Len(lines) THEN <<>>
    ELSE LET stripped == strip(lines[i + 1]) IN
         IF stripped = "" THEN <<>>
         ELSE IF DigitInPrefix(stripped, 10) \/ in("@", stripped) \/ in("*", stripped)
         THEN <<stripped>> \o collect_author_lines(lines, i + 1, stop)
         ELSE IF startswith(stripped, "1") \/ startswith(stripped, "*")
         THEN <<stripped>> \o collect_author_lines(lines, i + 1, stop)
         ELSE IF is_affiliation(stripped) THEN <<>>
         ELSE collect_author_lines(lines, i + 1, stop)

\* range(author_start_idx, min(author_start_idx + 10, len(lines)))
AuthorWindow == 10

author_lines_of(lines, author_start_idx) ==
    IF author_start_idx = None THEN <<>>
    ELSE collect_author_lines(lines, author_start_idx, author_start_idx + AuthorWindow)

LongName(a) == Len(a) > 2

LongStripped(a) == strip(a) # "" /\ Len(strip(a)) > 2

StripMarks(a) == strip(sub_marks(a))

\* parse_authors without the last filter on the cleaned names
parse_authors_unfiltered(author_lines) ==
    LET authors_text == sub_orcid(sub_email(join(" ", author_lines)))
        author_parts == split_authors(authors_text)
        kept == strip_all(SelectSeq(author_parts, LongStripped))
    IN [i \in 1..Len(kept) |-> StripMarks(kept[i])]

\* "if author_lines:" ... the names parsed out of the joined author lines
parse_authors(author_lines) ==
    LET authors_text == sub_orcid(sub_email(join(" ", author_lines)))
        author_parts == split_authors(authors_text)
        kept == strip_all(SelectSeq(author_parts, LongStripped))
    IN SelectSeq([i \in 1..Len(kept) |-> StripMarks(kept[i])], LongName)

is_abstract_marker(line) ==
    LET stripped == upper(strip(line)) IN
    stripped = "ABSTRACT" \/ (startswith(stripped, "ABSTRACT") /\ Len(stripped) < 20)

\* abstract_start: the index after the first marker line, None without one
abstract_start_of(lines) ==
    LET marks == {i \in 0..(Len(lines) - 1) : is_abstract_marker(lines[i + 1])} IN
    IF marks = {} THEN None ELSE Min(marks) + 1

\* is_abstract_end with the keyword headings left out
is_abstract_end_intro_only(stripped) == match_intro(stripped)

is_abstract_end(stripped) ==
    \/ match_intro(stripped)
    \/ startswith(upper(stripped), "KEY WORDS")
    \/ startswith(upper(stripped), "KEYWORDS")

\* the loop over range(abstract_start, len(lines))
RECURSIVE abstract_lines_from(_, _)
abstract_lines_from(lines, i) ==
    IF i >= Len(lines) THEN <<>>
    ELSE LET stripped == strip(lines[i + 1]) IN
         IF is_abstract_end(stripped) THEN <<>>
         ELSE (IF stripped # "" THEN <<stripped>> ELSE <<>>) \o abstract_lines_from(lines, i + 1)

\* abstract_start is the value of abstract_start_of(lines)
heuristic_abstract(content, lines, abstract_start) ==
    IF abstract_start # None
    THEN strip(join(" ", abstract_lines_from(lines, abstract_start)))
    ELSE LET abstract_match == search_abstract(content) IN
         IF abstract_match # NoMatch THEN strip(abstract_match[1]) ELSE ""

\* keywords_match.group(1).strip()[:100] when the pattern matches
heuristic_category(content) ==
    LET keywords_match == search_keywords(content) IN
    IF keywords_match # NoMatch THEN Prefix(strip(keywords_match[1]), 100) ELSE ""

\* the local variables of the else branch when it did not run
NoLocals == [scan_title |-> "", author_start_idx |-> None, author_lines |-> <<>>]

\* the else branch of load_paper: the fields it sets, the steps it runs and its locals
\* (self.title after the scan, author_start_idx, author_lines)
heuristic_path(content, lines) ==
    LET Fields(scan, author_lines, abstract_start) ==
            [paper |->
                [title    |-> title_fallback(scan.title, lines),
                 authors  |-> IF author_lines # <<>> THEN parse_authors(author_lines) ELSE <<>>,
                 category |-> heuristic_category(content),
                 abstract |-> heuristic_abstract(content, lines, abstract_start)],
             steps |->
                {"title_scan", "category_search"}
                \cup (IF title_fallback_runs(scan.title, lines) THEN {"title_fallback"} ELSE {})
                \cup (IF scan.author_start_idx # None THEN {"author_lines"} ELSE {})
                \cup (IF author_lines # <<>> THEN {"parse_authors"} ELSE {})
                \cup (IF abstract_start # None THEN {"abstract_marker"} ELSE {"abstract_search"}),
             locals |->
                [scan_title |-> scan.title, author_start_idx |-> scan.author_start_idx,
                 author_lines |-> author_lines]]
        AfterScan(scan) ==
            Fields(scan, author_lines_of(lines, scan.author_start_idx), abstract_start_of(lines))
    IN AfterScan(title_scan(lines, 0, <<>>))

\* load_paper on a file whose text was read: the fields and the branch steps taken
load_text(content) ==
    LET lines == split(content, "\n") IN
    IF has_labels(lines)
    THEN [paper |-> labeled_path(content, lines), steps |-> {"labeled_lines", "labeled_abstract"},
          locals |-> NoLocals]
    ELSE heuristic_path(content, lines)

\* open() and f.read() raise for every file that is not readable UTF-8 text
Readable(f) == f.kind = "text"

\* load_paper with the decoding error raised only after the text was parsed
load_paper_fails_late(self, f) ==
    LET Parsed(r) ==
            [paper |-> r.paper, steps |-> IF Readable(f) THEN r.steps ELSE {},
             locals |-> r.locals, printed |-> IF Readable(f) THEN 0 ELSE 1]
    IN Parsed(load_text(f.content))

\* load_paper(self): the try block, and the except clause that prints the diagnostic
load_paper(self, f) ==
    IF Readable(f)
    THEN LET Parsed(r) ==
                 [paper |-> r.paper, steps |-> r.steps, locals |-> r.locals, printed |-> 0]
         IN Parsed(load_text(f.content))
    ELSE [paper |-> self, steps |-> {}, locals |-> NoLocals, printed |-> 1]

\* Paper(filepath)
Paper(f) == load_paper(EmptyPaper, f)

(***************************************************************************)
(* Keyword matcher                                                         *)
(***************************************************************************)
\* f"{self.title} {self.abstract}"
get_searchable_text(p) == p.title \o " " \o p.abstract

\* contains_keywords with the case_sensitive flag ignored
contains_keywords_exact_case(p, keywords, case_sensitive) ==
    IF keywords = <<>> THEN TRUE
    ELSE \E i \in 1..Len(keywords) : in(keywords[i], get_searchable_text(p))

contains_keywords(p, keywords, case_sensitive) ==
    IF keywords = <<>> THEN TRUE
    ELSE LET search_text == IF case_sensitive THEN get_searchable_text(p)
                            ELSE lower(get_searchable_text(p))
             kws == IF case_sensitive THEN keywords ELSE lower_all(keywords)
         IN \E i \in 1..Len(kws) : in(kws[i], search_text)

\* the loop of get_matching_keywords from index i (1-based)
RECURSIVE matching_from(_, _, _, _)
matching_from(search_text, keywords, keywords_lower, i) ==
    IF i > Len(keywords) THEN <<>>
    ELSE (IF in(keywords_lower[i], search_text) THEN <<keywords[i]>> ELSE <<>>)
         \o matching_from(search_text, keywords, keywords_lower, i + 1)

\* get_matching_keywords returning the lowercased keywords it compared
get_matching_keywords_lowered(p, keywords, case_sensitive) ==
    IF keywords = <<>> THEN <<>>
    ELSE LET search_text == IF case_sensitive THEN get_searchable_text(p)
                            ELSE lower(get_searchable_text(p))
             keywords_lower == IF case_sensitive THEN keywords ELSE lower_all(keywords)
         IN matching_from(search_text, keywords_lower, keywords_lower, 1)

get_matching_keywords(p, keywords, case_sensitive) ==
    IF keywords = <<>> THEN <<>>
    ELSE LET search_text == IF case_sensitive THEN get_searchable_text(p)
                            ELSE lower(get_searchable_text(p))
             keywords_lower == IF case_sensitive THEN keywords ELSE lower_all(keywords)
         IN matching_from(search_text, keywords, keywords_lower, 1)

DEFAULT_ASTROPHYSICS_KEYWORDS ==
    <<"galaxy", "galaxies", "galactic", "star", "stars", "stellar", "black hole",
      "blackhole", "black holes", "nebula", "supernova", "supernovae", "quasar",
      "quasars", "cosmic", "cosmology", "cosmological", "dark matter", "dark energy",
      "redshift", "spectroscopy", "spectroscopic", "exoplanet", "exoplanets", "planet",
      "planetary", "asteroid", "asteroids", "comet", "comets", "meteor", "meteors",
      "pulsar", "pulsars", "neutron star", "neutron stars", "white dwarf",
      "white dwarfs", "interstellar", "intergalactic", "magnetic field",
      "magnetic fields", "radiation", "radiative", "emission", "emission line",
      "absorption", "absorption line", "wavelength", "wavelengths", "infrared",
      "ultraviolet", "x-ray", "gamma ray", "telescope", "observatory", "hubble",
      "jwst", "chandra", "spitzer", "merger", "mergers", "merging", "starburst",
      "star formation", "metallicity", "metallicities", "evolution", "evolutionary",
      "cluster", "clusters", "halo", "halos">>

\* the keywords argument: KeywordsNone is keywords=None, Given(l) a list
KeywordsNone == [is_none |-> TRUE, list |-> <<>>]

Given(l) == [is_none |-> FALSE, list |-> l]

\* the loop over papers from index i (1-based)
RECURSIVE filtered_from(_, _, _, _)
filtered_from(papers, keywords, case_sensitive, i) ==
    IF i > Len(papers) THEN <<>>
    ELSE (IF contains_keywords(papers[i], keywords, case_sensitive) THEN <<papers[i]>> ELSE <<>>)
         \o filtered_from(papers, keywords, case_sensitive, i + 1)

\* filter_papers_by_keywords with keywords=None passed through like an empty list
filter_papers_by_keywords_no_default(papers, keywords, case_sensitive) ==
    IF keywords.list = <<>> THEN papers
    ELSE filtered_from(papers, keywords.list, case_sensitive, 1)

filter_papers_by_keywords(papers, keywords, case_sensitive) ==
    LET kws == IF keywords.is_none THEN DEFAULT_ASTROPHYSICS_KEYWORDS ELSE keywords.list IN
    IF kws = <<>> THEN papers
    ELSE filtered_from(papers, kws, case_sensitive, 1)

\* papers = [Paper(path) for path in file_paths], then the filter
LoadedPaper(f) == Paper(f).paper

\* [Paper(fp) for fp in file_paths]
load_papers(paths) == [i \in 1..Len(paths) |-> LoadedPaper(paths[i])]

\* the papers it constructs and the list it returns
filter_papers_from_files(paths, keywords, case_sensitive) ==
    LET Filtered(loaded) ==
            [papers |-> loaded, result |-> filter_papers_by_keywords(loaded, keywords, case_sensitive)]
    IN Filtered(load_papers(paths))

(***************************************************************************)
(* The paper repository                                                    *)
(***************************************************************************)
\* range(1, 11): the files paper1.txt .. paper10.txt
NumPaperFiles == 10

\* paper_file.exists()
exists(f) == f.kind # "missing"

\* an element of the list papers: Paper(paper_file), or None (is_none) for a file
\* that does not exist; filepath is the number i of paper{i}.txt
paper_or_none(i, f) ==
    IF exists(f) THEN [is_none |-> FALSE, filepath |-> i, paper |-> LoadedPaper(f)]
    ELSE [is_none |-> TRUE, filepath |-> i, paper |-> EmptyPaper]

\* "p is not None"
is_not_none(p) == ~p.is_none

\* the "Warning: ... not found, skipping..." diagnostics, by file number, from file i on
RECURSIVE warnings_from(_, _)
warnings_from(files, i) ==
    IF i > NumPaperFiles THEN <<>>
    ELSE (IF exists(files[i]) THEN <<>> ELSE <<i>>) \o warnings_from(files, i + 1)

\* load_all_papers returning the list with its None entries
load_all_papers_keeps_none(files) ==
    [papers |-> [i \in 1..NumPaperFiles |-> paper_or_none(i, files[i])],
     warnings |-> warnings_from(files, 1)]

\* load_all_papers(base_dir): the list it returns and the warnings it prints
load_all_papers(files) ==
    [papers |-> SelectSeq([i \in 1..NumPaperFiles |-> paper_or_none(i, files[i])], is_not_none),
     warnings |-> warnings_from(files, 1)]

(***************************************************************************)
(* plots.py: keyword occurrence statistics                                  *)
(***************************************************************************)
\* re.sub(r"\s+", " ", s): every maximal run of white space becomes one space
RECURSIVE sub_spaces(_)
sub_spaces(s) ==
    LET p == SkipNotIn(s, 1, Spaces) IN
    IF p > Len(s) THEN s
    ELSE Slice(s, 1, p - 1) \o " " \o sub_spaces(Suffix(s, SkipIn(s, p, Spaces) - 1))

_normalize_space(s) == strip(sub_spaces(s))

IsAlnumChar(c) == IsDigit(c) \/ IsUpperChar(c) \/ IsLowerChar(c)

\* str.isalnum(): at least one character and every character a letter or a digit
isalnum(s) == s # "" /\ \A i \in 1..Len(s) : IsAlnumChar(Char(s, i))

\* the characters \w matches
IsWordChar(c) == IsAlnumChar(c) \/ c = "_"

\* \b before the character at index p (1-based; p = Len(s) + 1 is the end of s):
\* exactly one of the characters on the two sides is a word character
word_boundary(s, p) == (p > 1 /\ IsWordChar(Char(s, p - 1))) # IsWordChar(Char(s, p))

\* len(pattern.findall(text)) for the pattern \b<kw>\b with re.IGNORECASE: the matches
\* are taken left to right, each search resuming where the previous match ended
RECURSIVE findall_word(_, _, _)
findall_word(text, kw, from) ==
    LET hits == {p \in from..(Len(text) - Len(kw) + 1) :
                    /\ lower(Slice(text, p, p + Len(kw) - 1)) = lower(kw)
                    /\ word_boundary(text, p)
                    /\ word_boundary(text, p + Len(kw))}
    IN IF hits = {} THEN 0 ELSE 1 + findall_word(text, kw, Min(hits) + Len(kw))

\* count with every occurrence counted, overlapping ones as well
RECURSIVE count_overlapping(_, _, _)
count_overlapping(text, sub, from) ==
    LET p == find(text, sub, from) IN
    IF p = 0 THEN 0 ELSE 1 + count_overlapping(text, sub, p + 1)

\* text.count(sub), sub non-empty: occurrences left to right, none overlapping another
RECURSIVE count(_, _, _)
count(text, sub, from) ==
    LET p == find(text, sub, from) IN
    IF p = 0 THEN 0 ELSE 1 + count(text, sub, p + Len(sub))

\* _count_occurrences with the substring count for every keyword
_count_occurrences_substring(text, keyword) ==
    LET Counted(text_norm, kw_norm) ==
            IF kw_norm = "" THEN 0 ELSE count(text_norm, kw_norm, 1)
    IN Counted(lower(_normalize_space(text)), lower(_normalize_space(keyword)))

_count_occurrences(text, keyword) ==
    LET Counted(text_norm, kw_norm) ==
            IF kw_norm = "" THEN 0
            ELSE IF ~in(" ", kw_norm) /\ isalnum(kw_norm) THEN findall_word(text_norm, kw_norm, 1)
            ELSE count(text_norm, kw_norm, 1)
    IN Counted(lower(_normalize_space(text)), lower(_normalize_space(keyword)))

_paper_text(paper) == _normalize_space(get_searchable_text(paper))

\* the label of the i-th paper (i counted from 1); the ellipsis U+2026 is written "~"
paper_label(i, paper) ==
    LET Labeled(title) ==
            IF title # ""
            THEN "paper" \o ToString(i) \o ": " \o Prefix(title, 60)
                 \o (IF Len(title) > 60 THEN "~" ELSE "")
            ELSE "paper" \o ToString(i)
    IN Labeled(strip(paper.title))

\* row = [_count_occurrences(text, kw) for kw in keywords]
keyword_row(text, keywords) == [k \in 1..Len(keywords) |-> _count_occurrences(text, keywords[k])]

\* build_keyword_stats with one column less than there are keywords
build_keyword_stats_short_rows(papers, keywords) ==
    [keywords |-> keywords,
     paper_labels |-> [i \in 1..Len(papers) |-> paper_label(i, papers[i])],
     matrix |-> [i \in 1..Len(papers) |->
                    keyword_row(_paper_text(papers[i]), SubSeq(keywords, 1, Len(keywords) - 1))]]

\* build_keyword_stats(papers, keywords): the KeywordStats it returns
build_keyword_stats(papers, keywords) ==
    [keywords |-> keywords,
     paper_labels |-> [i \in 1..Len(papers) |-> paper_label(i, papers[i])],
     matrix |-> [i \in 1..Len(papers) |-> keyword_row(_paper_text(papers[i]), keywords)]]

\* sum(self.matrix[p][k] for p in range(len(self.matrix))), from row p (1-based) on
RECURSIVE column_sum(_, _, _)
column_sum(matrix, k, p) ==
    IF p > Len(matrix) THEN 0 ELSE matrix[p][k] + column_sum(matrix, k, p + 1)

\* sum(1 for p in range(len(self.matrix)) if self.matrix[p][k] > 0), from row p on
RECURSIVE column_presence(_, _, _)
column_presence(matrix, k, p) ==
    IF p > Len(matrix) THEN 0
    ELSE (IF matrix[p][k] > 0 THEN 1 ELSE 0) + column_presence(matrix, k, p + 1)

\* total_occurrences summing the rows after the first
total_occurrences_from_second(stats) ==
    [k \in 1..Len(stats.keywords) |-> column_sum(stats.matrix, k, 2)]

\* KeywordStats.total_occurrences()
total_occurrences(stats) ==
    [k \in 1..Len(stats.keywords) |-> column_sum(stats.matrix, k, 1)]

\* KeywordStats.papers_with_keyword()
papers_with_keyword(stats) ==
    [k \in 1..Len(stats.keywords) |-> column_presence(stats.matrix, k, 1)]

\* the list with index i put behind every index whose value is at least values[i]
\* and before the first index whose value is smaller: one step of a stable sort
\* in descending order of the values (indices are 0-based)
insert_index(sorted, values, i) ==
    LET smaller == {r \in 1..Len(sorted) : values[sorted[r] + 1] < values[i + 1]}
        at == IF smaller = {} THEN Len(sorted) + 1 ELSE Min(smaller)
    IN SubSeq(sorted, 1, at - 1) \o <<i>> \o SubSeq(sorted, at, Len(sorted))

\* sorted(range(len(values)), key=lambda i: values[i], reverse=True), over the indices
\* below m: the sort is stable, with reverse=True as well
RECURSIVE sorted_indices(_, _)
sorted_indices(values, m) ==
    IF m = 0 THEN <<>> ELSE insert_index(sorted_indices(values, m - 1), values, m - 1)

\* seq[:n] of a list, for n of either sign
take(seq, n) ==
    IF n >= 0 THEN SubSeq(seq, 1, Min({n, Len(seq)}))
    ELSE SubSeq(seq, 1, Max({Len(seq) + n, 0}))

\* _top_n_indices with equal values in descending order of their indices
_top_n_indices_ties_reversed(values, n) ==
    LET Reversed(asc) == [r \in 1..Len(asc) |-> asc[Len(asc) + 1 - r]]
        Negated == [i \in 1..Len(values) |-> 0 - values[i]]
    IN take(Reversed(sorted_indices(Negated, Len(values))), n)

_top_n_indices(values, n) == take(sorted_indices(values, Len(values)), n)

(***************************************************************************)
(* summarize_abstracts.py: the batch of summaries                           *)
(***************************************************************************)
\* s.rfind(sub): greatest position (1-based) at which sub occurs, 0 if none
rfind(s, sub) ==
    LET hits == {p \in 1..(Len(s) - Len(sub) + 1) : Slice(s, p, p + Len(sub) - 1) = sub} IN
    IF hits = {} THEN 0 ELSE Max(hits)

AuthMessage ==
    "Invalid API key. Please check your API key in the env file and ensure it's valid at https://platform.openai.com/account/api-keys"

QuotaMessage ==
    "Quota exceeded. Please check your OpenAI account billing and usage limits at https://platform.openai.com/account/billing"

RateLimitMessage ==
    "Rate limit exceeded. The script will wait and retry, or you can increase the delay between requests."

TimeoutMessage == "Request timed out. Please check your internet connection and try again."

\* json.loads(text)["error"]["message"] for the texts of the error inputs: an object
\* {"error": {"message": "<m>"}} with a plain <m> parses and yields <m>; every other
\* text of the inputs (no object, or one in Python's single-quoted form) raises
json_error_message(text) ==
    LET open == "{\"error\": {\"message\": \""
        close == "\"}}"
        m == Slice(text, Len(open) + 1, Len(text) - Len(close))
    IN IF /\ Len(text) >= Len(open) + Len(close)
          /\ startswith(text, open)
          /\ Slice(text, Len(text) - Len(close) + 1, Len(text)) = close
          /\ ~in("\"", m)
       THEN [ok |-> TRUE, message |-> m]
       ELSE [ok |-> FALSE, message |-> ""]

\* the else branch of get_error_message: the message of a JSON error, if one parses
cleaner_message(error_str) ==
    IF in("error", lower(error_str)) /\ in("message", lower(error_str)) /\ in("{", error_str)
    THEN LET Parsed(j) == IF j.ok THEN j.message ELSE error_str
         IN Parsed(json_error_message(
                Slice(error_str, find(error_str, "{", 1), rfind(error_str, "}"))))
    ELSE error_str

\* get_error_message(error), error_str being str(error)
get_error_message(error_str) ==
    IF in("401", error_str) \/ in("invalid_api_key", lower(error_str)) THEN AuthMessage
    ELSE IF in("429", error_str) \/ in("insufficient_quota", lower(error_str)) THEN QuotaMessage
    ELSE IF in("rate_limit", lower(error_str)) THEN RateLimitMessage
    ELSE IF in("timeout", lower(error_str)) THEN TimeoutMessage
    ELSE cleaner_message(error_str)

\* the test before the break: "quota" in error_msg.lower() or "429" in str(e)
stops_processing(error_msg, error_str) == in("quota", lower(error_msg)) \/ in("429", error_str)

\* the entries appended to summaries
skipped_entry(i) ==
    [paper_number |-> i, status |-> "skipped", summary |-> "No abstract available",
     error_details |-> ""]

success_entry(i, summary) ==
    [paper_number |-> i, status |-> "success", summary |-> summary, error_details |-> ""]

error_entry(i, error_str) ==
    [paper_number |-> i, status |-> "error",
     summary |-> "Error: " \o get_error_message(error_str), error_details |-> error_str]

(***************************************************************************)
(* Inputs: the files a Paper is constructed from                            *)
(***************************************************************************)
MaxPad == 21

MaxKeywords == 2

MaxPapers == 2

MaxFollow == 3

MaxFront == 3

Lines(seq) == join("\n", seq)

\* the sequences over S of length at most n
RECURSIVE SeqsUpTo(_, _)
SeqsUpTo(S, n) ==
    IF n = 0 THEN {<<>>}
    ELSE SeqsUpTo(S, n - 1) \cup {Append(q, v) : q \in {r \in SeqsUpTo(S, n - 1) : Len(r) = n - 1}, v \in S}

RECURSIVE BlankLines(_)
BlankLines(n) == IF n = 0 THEN "" ELSE "\n" \o BlankLines(n - 1)

\* labeled files: Title: X / Authors: A, B / Category: C / Abstract: D
TitleValues == {"Dust Maps", "On Title: Use"}

FirstAuthors == {"Ann Lee", "Bo", "7"}

SecondAuthors == {"Cy Day", "*"}

CategoryValues == {"astro-ph.GA", "Category: GA"}

AbstractValues ==
    {"We map dust.", "See Abstract: below.", "We map.\nTitle: Z", "We map.\nIt is cold."}

LabeledDoc(X, A, B, C, D) ==
    Lines(<<"Title: " \o X, "Authors: " \o A \o ", " \o B, "Category: " \o C, "Abstract: " \o D>>)

LabeledInputs ==
    {[family |-> "labeled", pad |-> 0, parts |-> <<X, A, B, C, D>>,
      content |-> LabeledDoc(X, A, B, C, D)] :
        X \in TitleValues, A \in FirstAuthors, B \in SecondAuthors,
        C \in CategoryValues, D \in AbstractValues}

\* labeled files with the abstract marker absent, once, or several times
MarkerBodies ==
    {<<"Title: Dust Maps", "Authors: Ann Lee, , Cy Day">>,
     <<"Title: Dust Maps", "Abstract:", " We map dust. ", "Category: GA">>,
     <<"Title: Dust Maps", "Old Abstract: none. Abstract: We map dust.", "Abstract: more">>,
     <<"Title:", "Authors:", "No labels are filled in", "Keywords: dust">>}

MarkerInputs ==
    {[family |-> "marker", pad |-> 0, parts |-> b, content |-> Lines(b)] : b \in MarkerBodies}

\* raw text: line 3 a header, a two-line title, an author line, an ABSTRACT marker,
\* two body lines, a closing heading and the first line of the next section
FirstLines == {"", "arXiv:2401.01234v1"}

Headers == {"MNRAS", "THE ASTROPHYSICAL JOURNAL"}

TitleLines == {"Dust in Galaxies", "Dust Maps"}

AuthorLines ==
    {"1 Ann Lee, 22*, Bob Roe2", "1 A. Lee", "1 Al, 2 Bo",
     "2 Cy Day^, ORCID: 0000-0002 and 3*, ann@x.org"}

Markers == {"ABSTRACT", "Abstract."}

BodyLines == {"We map dust.", "Keywords are few.", "  "}

Headings == {"1 INTRODUCTION", "1. Introduction", "Key words: dust", "INTRODUCTION"}

RawLines(L1, H, T1, A, M, B1, E) ==
    <<L1, "", H, T1, "of the Local Group", A, "", M, B1, "It is cold.", E, "Galaxies are big.">>

RawInput(L1, H, T1, A, M, B1, E) ==
    [family |-> "raw", pad |-> 0, parts |-> RawLines(L1, H, T1, A, M, B1, E),
     content |-> Lines(RawLines(L1, H, T1, A, M, B1, E))]

RawInputs ==
    {RawInput(L1, H, T1, A, M, B1, E) :
        L1 \in FirstLines, H \in Headers, T1 \in TitleLines, A \in AuthorLines,
        M \in Markers, B1 \in BodyLines, E \in Headings}

\* files whose interesting lines come after pad blank lines, around the 20-line window
PadCounts == {0} \cup ((MaxPad - 3)..MaxPad)

PaddedBodies ==
    {<<"Title: Dust Maps", "Authors: Ann Lee, Cy Day", "Category: GA", "Abstract: We map dust.">>,
     <<"  Title: Dust Maps", "1 Ann Lee, Cy Day2", "ABSTRACT", "We map dust.", "Keywords: dust">>,
     <<"Dust Maps of the Sky", "1 Ann Lee, Cy Day2", "Abstract: We map dust, far away.",
       "Keywords: dust", "Title: Late Label", "Authors: Zed", "Category: Late">>,
     <<"A Title: in the Line", "2 Ann Lee", "School of Dust", "Abstract", "We map dust.">>}

PaddedInputs ==
    {[family |-> "padded", pad |-> n, parts |-> b, content |-> BlankLines(n) \o Lines(b)] :
        n \in PadCounts, b \in PaddedBodies}

\* raw text whose author line is followed by MaxFollow more lines, and one whose
\* author line is followed by more lines than the collection window holds
FollowLines == {"", "and Cy Day", "3 Dee Poe*", "2 School of Dust", "University of Dust"}

FollowBlocks == {q \in SeqsUpTo(FollowLines, MaxFollow) : Len(q) = MaxFollow}

WindowBlock == [i \in 1..(AuthorWindow + 1) |-> "2 Bo"]

AuthorDoc(follow) ==
    <<"", "Dust in Galaxies", "1 Ann Lee, 2 Bo Roe">> \o follow \o <<"ABSTRACT", "We map dust.">>

AuthorInputs ==
    {[family |-> "authors", pad |-> 0, parts |-> AuthorDoc(q), content |-> Lines(AuthorDoc(q))] :
        q \in FollowBlocks \cup {WindowBlock}}

\* short raw files: every sequence of up to MaxFront front-matter lines, and one file
\* with more title-like lines than the title fallback reads
FrontLines ==
    {"", "Dust Clump", "Dust in Galaxies", "Accepted 2024 May", "2 Ann Lee, Bo Roe",
     "ann.lee@dust.org", "*Corresponding author"}

LongFront ==
    <<"Dust in Galaxies", "of the Local Group", "and of the Clouds", "seen in the infrared",
      "over many years", "with a telescope", "from the ground", "and from space">>

FrontInputs ==
    {[family |-> "front", pad |-> 0, parts |-> q, content |-> Lines(q)] :
        q \in SeqsUpTo(FrontLines, MaxFront) \cup {LongFront}}

Inputs ==
    LabeledInputs \cup MarkerInputs \cup RawInputs \cup PaddedInputs \cup AuthorInputs
    \cup FrontInputs

\* what open() and read() make of the path
FileKinds == {"text", "missing", "unreadable", "undecodable"}

\* keyword lists of the queries
KeywordValues == {"dust", "Galax", "Local Group"}

KeywordLists == SeqsUpTo(KeywordValues, MaxKeywords)

\* the files of the keyword queries and of the paper filter
QueryInputs ==
    {[family |-> "query", pad |-> 0, parts |-> b, content |-> Lines(b)] :
        b \in {<<"Title: Dust in Galaxies", "Abstract: We map the local group.">>,
               <<"Title: Stardust", "Authors: Ann Lee">>,
               <<"", "", "JOURNAL", "Galaxy Formation in the", "Local Group of ours", "1 Ann Lee",
                 "", "ABSTRACT", "Dark matter halos.", "1 INTRODUCTION">>,
               <<"Abstract", "no DUST">>}}

QueryFiles ==
    {[kind |-> "text", content |-> i.content] : i \in QueryInputs}
    \cup {[kind |-> "missing", content |-> ""]}

\* the keywords argument of the filter
KeywordArgs == {KeywordsNone, Given(<<>>), Given(<<"dust">>), Given(<<"Galax", "halo">>)}

\* the texts and keywords of the occurrence counts
CountTexts ==
    {"", "starburst galaxies", "Star  formation in the\tSTAR cluster",
     "a star_burst, a 2star and a star.", "observed dark matter halo and dark matter density",
     "aa aa aa  aa", "c++ and c+++c++", "the star star, Star-forming"}

CountKeywords ==
    {"", "  ", "star", "Star", "galaxies", "star ", " star", "\tSTAR\n", "2star", "star_burst",
     "dark matter", "dark  Matter", "aa aa", "c++", "a", "star,"}

\* the papers and keywords of the statistics
StatPapers ==
    {[title |-> "Starburst galaxies", authors |-> <<"Ann Lee">>, category |-> "",
      abstract |-> "A star, a star\nand dark   matter."],
     [title |-> "  ", authors |-> <<>>, category |-> "GA", abstract |-> "Dark matter, dark matter halos"],
     [title |-> "A very long title about the stars of the Local Group and the dust between them",
      authors |-> <<>>, category |-> "", abstract |-> ""]}

StatKeywords == {"star", "dark matter", "galaxies"}

MaxValues == 3

MaxValue == 2

MaxTop == 3

\* the values and n of _top_n_indices
TopValues == SeqsUpTo(0..MaxValue, MaxValues) \cup {<<3, 1, 4, 1, 5>>}

\* the text of paper{i}.txt
RepoText(i) == "Title: Paper " \o ToString(i) \o "\nAbstract: Dust, part " \o ToString(i)

\* the papers directory: every subset of the ten files present, and the same with a
\* paper2.txt that exists and cannot be read
Repos ==
    {[i \in 1..NumPaperFiles |->
        IF i \in present
        THEN [kind |-> IF i = 2 THEN k ELSE "text", content |-> RepoText(i)]
        ELSE [kind |-> "missing", content |-> ""]] :
     present \in SUBSET (1..NumPaperFiles), k \in {"text", "unreadable"}}

NoRepo == [i \in 1..NumPaperFiles |-> [kind |-> "missing", content |-> ""]]

NoPapers == [done |-> FALSE, papers |-> <<>>, warnings |-> <<>>]

MaxBatch == 3

\* the papers directory of a batch: each of the first MaxBatch files is missing, has
\* an abstract or has none; the other files are missing
BatchFile(i, k) ==
    IF k = "abstract" THEN [kind |-> "text", content |-> RepoText(i)]
    ELSE IF k = "bare" THEN [kind |-> "text", content |-> "Title: Paper " \o ToString(i)]
    ELSE [kind |-> "missing", content |-> ""]

BatchRepos ==
    {[i \in 1..NumPaperFiles |-> IF i <= MaxBatch THEN BatchFile(i, ks[i]) ELSE BatchFile(i, "missing")] :
        ks \in [1..MaxBatch -> {"abstract", "bare", "missing"}]}

\* str(e) of the exceptions summarize_text raises
ErrorTexts ==
    {"Error code: 401 - invalid_api_key",
     "Incorrect API key provided: sk-4290 (invalid_api_key)",
     "Error code: 429 - insufficient_quota",
     "You exceeded your current quota (insufficient_quota)",
     "rate_limit_exceeded, slow down",
     "Request Timeout",
     "Connection reset",
     "server error {\"error\": {\"message\": \"Model overloaded\"}}",
     "server error {\"error\": {\"message\": \"Over quota for this model\"}}",
     "Error message: {'error': {'message': 'bad request'}}"}

\* the values of delay_between_requests: the default, and a negative number of seconds
Delays == {1, 0 - 1}

\* str(e) of the ValueError time.sleep raises for a negative argument
SleepError == "sleep length must be non-negative"

\* str(e) of the TypeError of len(None)
NoneTypeError == "object of type 'NoneType' has no len()"

\* the summaries summarize_text returns
Summaries == {"Dust is mapped."}

NoCounts == [success_count |-> 0, error_count |-> 0, skipped_count |-> 0]

NoReport == [written |-> FALSE, total |-> 0, success |-> 0, errors |-> 0, skipped |-> 0]

NoOcc == [text |-> "", keyword |-> "", done |-> FALSE, count |-> 0]

NoStatArgs == [papers |-> <<>>, keywords |-> <<>>]

NoStats == [built |-> FALSE, keywords |-> <<>>, paper_labels |-> <<>>, matrix |-> <<>>]

NoTotals ==
    [totals_done |-> FALSE, total_occurrences |-> <<>>,
     presence_done |-> FALSE, papers_with_keyword |-> <<>>]

NoTop == [values |-> <<>>, n |-> 0, done |-> FALSE, result |-> <<>>]

NoQuery == [op |-> "none", keywords |-> <<>>, case_sensitive |-> FALSE, found |-> FALSE, matching |-> <<>>]

(***************************************************************************)
(* State                                                                   *)
(***************************************************************************)
VARIABLES
    input,      \* how the file's text was put together
    file,       \* [kind, content]: the file behind self.filepath
    pc,         \* "new", "constructed", "queried"
    title, authors, category, abstract,   \* the fields of the Paper
    steps,      \* the branch steps load_paper ran
    locals,     \* the local variables the heuristic branch of load_paper ended with
    printed,    \* number of "Error loading" diagnostics printed
    query,      \* the last keyword query and its return value
    file_paths, \* the files handed to filter_papers_from_files
    call,       \* [keywords, case_sensitive]: the other arguments of that call
    papers,     \* the papers constructed from file_paths
    filtered,   \* the list the filter returned
    occ,        \* [text, keyword, done, count]: one call of _count_occurrences
    stat_args,  \* [papers, keywords]: the arguments of build_keyword_stats
    stats,      \* the KeywordStats it returned, once built
    totals,     \* what total_occurrences() and papers_with_keyword() returned
    top,        \* [values, n, done, result]: one call of _top_n_indices
    repo,       \* the files paper1.txt .. paper10.txt of the papers directory
    all_papers, \* [done, papers, warnings]: what load_all_papers returned and printed
    api_key,    \* os.getenv("OPENAI_API_KEY"), "" when it is not set
    bpc,        \* summarize_all_abstracts: "idle", "start", "loop", "stopped", "done", "returned"
    visited,    \* the number i of the paper the loop dealt with last
    summaries,  \* the list summaries
    counts,     \* success_count, error_count, skipped_count
    calls,      \* the numbers of the papers passed to summarize_text
    report,     \* the counts written to the output file
    delay       \* the argument delay_between_requests

paper_vars ==
    <<input, file, pc, title, authors, category, abstract, steps, locals, printed, query>>

filter_vars == <<file_paths, call, papers, filtered>>

stats_vars == <<occ, stat_args, stats, totals, top>>

repo_vars == <<repo, all_papers>>

batch_vars == <<api_key, bpc, visited, summaries, counts, calls, report, delay>>

vars == <<paper_vars, filter_vars, stats_vars, repo_vars, batch_vars>>

self == [title |-> title, authors |-> authors, category |-> category, abstract |-> abstract]

NoCall == [keywords |-> KeywordsNone, case_sensitive |-> FALSE, done |-> FALSE]

NoFilter == file_paths = <<>> /\ call = NoCall /\ papers = <<>> /\ filtered = <<>>

NoBatch ==
    /\ api_key = "" /\ bpc = "idle" /\ visited = 0 /\ summaries = <<>>
    /\ counts = NoCounts /\ calls = <<>> /\ report = NoReport /\ delay = 1

EmptyRepo == repo = NoRepo /\ all_papers = NoPapers

NoPlots ==
    occ = NoOcc /\ stat_args = NoStatArgs /\ stats = NoStats /\ totals = NoTotals /\ top = NoTop

NewPaper ==
    /\ pc = "new"
    /\ title = "" /\ authors = <<>> /\ category = "" /\ abstract = ""
    /\ steps = {}
    /\ locals = NoLocals
    /\ printed = 0
    /\ query = NoQuery

\* one file, of any family, about to be loaded
Init ==
    /\ input \in Inputs
    /\ \E k \in FileKinds :
          /\ k # "text" => input.family = "padded" /\ input.pad = 0
          /\ file = [kind |-> k, content |-> input.content]
    /\ NewPaper
    /\ NoBatch
    /\ EmptyRepo
    /\ NoFilter
    /\ NoPlots

\* one file of the keyword queries
InitMatch ==
    /\ input \in QueryInputs
    /\ file = [kind |-> "text", content |-> input.content]
    /\ NewPaper
    /\ NoBatch
    /\ EmptyRepo
    /\ NoFilter
    /\ NoPlots

\* a list of files and the arguments of one filter call
InitFilter ==
    /\ input = [family |-> "none", pad |-> 0, parts |-> <<>>, content |-> ""]
    /\ file = [kind |-> "missing", content |-> ""]
    /\ NewPaper
    /\ NoBatch
    /\ EmptyRepo
    /\ file_paths \in SeqsUpTo(QueryFiles, MaxPapers)
    /\ \E k \in KeywordArgs, cs \in BOOLEAN :
          call = [keywords |-> k, case_sensitive |-> cs, done |-> FALSE]
    /\ papers = <<>>
    /\ filtered = <<>>
    /\ NoPlots

\* one text and one keyword to count
InitCount ==
    /\ input = [family |-> "none", pad |-> 0, parts |-> <<>>, content |-> ""]
    /\ file = [kind |-> "missing", content |-> ""]
    /\ NewPaper
    /\ NoBatch
    /\ EmptyRepo
    /\ NoFilter
    /\ \E t \in CountTexts, k \in CountKeywords :
          occ = [text |-> t, keyword |-> k, done |-> FALSE, count |-> 0]
    /\ stat_args = NoStatArgs /\ stats = NoStats /\ totals = NoTotals /\ top = NoTop

\* a list of papers and a list of keywords
InitStats ==
    /\ input = [family |-> "none", pad |-> 0, parts |-> <<>>, content |-> ""]
    /\ file = [kind |-> "missing", content |-> ""]
    /\ NewPaper
    /\ NoBatch
    /\ EmptyRepo
    /\ NoFilter
    /\ \E ps \in SeqsUpTo(StatPapers, MaxPapers), ks \in SeqsUpTo(StatKeywords, MaxKeywords) :
          stat_args = [papers |-> ps, keywords |-> ks]
    /\ occ = NoOcc /\ stats = NoStats /\ totals = NoTotals /\ top = NoTop

\* a list of values and a number of indices to select
InitTop ==
    /\ input = [family |-> "none", pad |-> 0, parts |-> <<>>, content |-> ""]
    /\ file = [kind |-> "missing", content |-> ""]
    /\ NewPaper
    /\ NoBatch
    /\ EmptyRepo
    /\ NoFilter
    /\ \E v \in TopValues, n \in (0 - 1)..MaxTop :
          top = [values |-> v, n |-> n, done |-> FALSE, result |-> <<>>]
    /\ occ = NoOcc /\ stat_args = NoStatArgs /\ stats = NoStats /\ totals = NoTotals

\* a papers directory
InitRepo ==
    /\ input = [family |-> "none", pad |-> 0, parts |-> <<>>, content |-> ""]
    /\ file = [kind |-> "missing", content |-> ""]
    /\ NewPaper
    /\ NoBatch
    /\ NoFilter
    /\ NoPlots
    /\ repo \in Repos
    /\ all_papers = NoPapers

\* a papers directory and an environment, before summarize_all_abstracts is called
InitBatch ==
    /\ input = [family |-> "none", pad |-> 0, parts |-> <<>>, content |-> ""]
    /\ file = [kind |-> "missing", content |-> ""]
    /\ pc = "new"
    /\ title = "" /\ authors = <<>> /\ category = "" /\ abstract = ""
    /\ steps = {} /\ locals = NoLocals /\ printed = 0 /\ query = NoQuery
    /\ NoFilter
    /\ NoPlots
    /\ repo \in BatchRepos
    /\ all_papers = NoPapers
    /\ api_key \in {"", "sk-test"}
    /\ bpc = "start" /\ visited = 0 /\ summaries = <<>>
    /\ counts = NoCounts /\ calls = <<>> /\ report = NoReport
    /\ delay \in Delays

\* Paper(filepath): __init__ sets the defaults and calls load_paper
Construct ==
    /\ pc = "new"
    /\ \E r \in {Paper(file)} :
          /\ title' = r.paper.title
          /\ authors' = r.paper.authors
          /\ category' = r.paper.category
          /\ abstract' = r.paper.abstract
          /\ steps' = r.steps
          /\ locals' = r.locals
          /\ printed' = printed + r.printed
    /\ pc' = "constructed"
    /\ UNCHANGED <<input, file, query, filter_vars, stats_vars, repo_vars, batch_vars>>

\* paper.contains_keywords(keywords, case_sensitive)
ContainsKeywords ==
    /\ pc = "constructed"
    /\ \E kws \in KeywordLists, cs \in BOOLEAN :
          query' = [op |-> "contains_keywords", keywords |-> kws, case_sensitive |-> cs,
                    found |-> contains_keywords(self, kws, cs), matching |-> <<>>]
    /\ pc' = "queried"
    /\ UNCHANGED <<input, file, title, authors, category, abstract, steps, locals, printed,
                   filter_vars, stats_vars, repo_vars, batch_vars>>

\* paper.get_matching_keywords(keywords, case_sensitive)
GetMatchingKeywords ==
    /\ pc = "constructed"
    /\ \E kws \in KeywordLists, cs \in BOOLEAN :
          query' = [op |-> "get_matching_keywords", keywords |-> kws, case_sensitive |-> cs,
                    found |-> FALSE, matching |-> get_matching_keywords(self, kws, cs)]
    /\ pc' = "queried"
    /\ UNCHANGED <<input, file, title, authors, category, abstract, steps, locals, printed,
                   filter_vars, stats_vars, repo_vars, batch_vars>>

\* filter_papers_from_files(file_paths, keywords, case_sensitive)
FilterFromFiles ==
    /\ ~call.done
    /\ \E r \in {filter_papers_from_files(file_paths, call.keywords, call.case_sensitive)} :
          /\ papers' = r.papers
          /\ filtered' = r.result
    /\ call' = [call EXCEPT !.done = TRUE]
    /\ UNCHANGED <<paper_vars, file_paths, stats_vars, repo_vars, batch_vars>>

\* _count_occurrences(text, keyword)
CountOccurrences ==
    /\ ~occ.done
    /\ occ' = [occ EXCEPT !.done = TRUE, !.count = _count_occurrences(occ.text, occ.keyword)]
    /\ UNCHANGED <<paper_vars, filter_vars, repo_vars, batch_vars, stat_args, stats, totals, top>>

\* stats = build_keyword_stats(papers, keywords)
BuildKeywordStats ==
    /\ ~stats.built
    /\ \E r \in {build_keyword_stats(stat_args.papers, stat_args.keywords)} :
          stats' = [built |-> TRUE, keywords |-> r.keywords, paper_labels |-> r.paper_labels,
                    matrix |-> r.matrix]
    /\ UNCHANGED <<paper_vars, filter_vars, repo_vars, batch_vars, occ, stat_args, totals, top>>

\* stats.total_occurrences()
TotalOccurrences ==
    /\ stats.built /\ ~totals.totals_done
    /\ totals' = [totals EXCEPT !.totals_done = TRUE, !.total_occurrences = total_occurrences(stats)]
    /\ UNCHANGED <<paper_vars, filter_vars, repo_vars, batch_vars, occ, stat_args, stats, top>>

\* stats.papers_with_keyword()
PapersWithKeyword ==
    /\ stats.built /\ ~totals.presence_done
    /\ totals' = [totals EXCEPT !.presence_done = TRUE,
                                 !.papers_with_keyword = papers_with_keyword(stats)]
    /\ UNCHANGED <<paper_vars, filter_vars, repo_vars, batch_vars, occ, stat_args, stats, top>>

\* _top_n_indices(values, n)
TopNIndices ==
    /\ ~top.done
    /\ top' = [top EXCEPT !.done = TRUE, !.result = _top_n_indices(top.values, top.n)]
    /\ UNCHANGED <<paper_vars, filter_vars, repo_vars, batch_vars, occ, stat_args, stats, totals>>

Next == Construct

NextMatch == Construct \/ ContainsKeywords \/ GetMatchingKeywords

\* load_all_papers(): Paper() of every file that exists prints its own diagnostics
LoadAllPapers ==
    /\ ~all_papers.done
    /\ \E r \in {load_all_papers(repo)} :
          all_papers' = [done |-> TRUE, papers |-> r.papers, warnings |-> r.warnings]
    /\ UNCHANGED <<paper_vars, filter_vars, stats_vars, batch_vars, repo>>

\* summarize_all_abstracts up to the loop: the papers are loaded, and without an API
\* key the function returns
StartBatch ==
    /\ bpc = "start"
    /\ \E r \in {load_all_papers(repo)} :
          all_papers' = [done |-> TRUE, papers |-> r.papers, warnings |-> r.warnings]
    /\ bpc' = IF api_key = "" THEN "returned" ELSE "loop"
    /\ UNCHANGED <<paper_vars, filter_vars, stats_vars, repo, api_key, visited, summaries,
                   counts, calls, report, delay>>

\* the loop is about to deal with paper number visited + 1 (a Paper is never falsy, so
\* "if not paper: continue" is not taken)
NextPaper == bpc = "loop" /\ visited < Len(all_papers.papers)

\* one pass of the loop for a paper without abstract
SkipPaper ==
    /\ NextPaper
    /\ all_papers.papers[visited + 1].paper.abstract = ""
    /\ visited' = visited + 1
    /\ summaries' = Append(summaries, skipped_entry(visited + 1))
    /\ counts' = [counts EXCEPT !.skipped_count = @ + 1]
    /\ UNCHANGED <<paper_vars, filter_vars, stats_vars, repo_vars, api_key, bpc, calls, report, delay>>

\* "if i < len(papers): time.sleep(delay_between_requests)" raises for paper number i
sleep_raises(i) == i < Len(all_papers.papers) /\ delay < 0

\* one pass of the loop in which summarize_text returns a summary and the pause after
\* it raises: the success entry is appended and counted, time.sleep raises inside the
\* try block and the except clause appends and counts an error entry
SleepFails ==
    /\ NextPaper
    /\ all_papers.papers[visited + 1].paper.abstract # ""
    /\ sleep_raises(visited + 1)
    /\ visited' = visited + 1
    /\ calls' = Append(calls, visited + 1)
    /\ \E summary \in Summaries :
          summaries' = Append(Append(summaries, success_entry(visited + 1, summary)),
                              error_entry(visited + 1, SleepError))
    /\ counts' = [counts EXCEPT !.success_count = @ + 1, !.error_count = @ + 1]
    /\ bpc' = IF stops_processing(get_error_message(SleepError), SleepError)
              THEN "stopped" ELSE "loop"
    /\ UNCHANGED <<paper_vars, filter_vars, stats_vars, repo_vars, api_key, report, delay>>

\* one pass of the loop in which summarize_text returns a summary
SummarizeSucceeds ==
    /\ NextPaper
    /\ all_papers.papers[visited + 1].paper.abstract # ""
    /\ ~sleep_raises(visited + 1)
    /\ visited' = visited + 1
    /\ calls' = Append(calls, visited + 1)
    /\ \E summary \in Summaries :
          summaries' = Append(summaries, success_entry(visited + 1, summary))
    /\ counts' = [counts EXCEPT !.success_count = @ + 1]
    /\ UNCHANGED <<paper_vars, filter_vars, stats_vars, repo_vars, api_key, bpc, report, delay>>

\* one pass of the loop in which summarize_text returns None (a completion without
\* content): the success entry is appended and counted, len(summary) raises inside
\* the try block and the except clause appends and counts an error entry
SummarizeReturnsNone ==
    /\ NextPaper
    /\ all_papers.papers[visited + 1].paper.abstract # ""
    /\ visited' = visited + 1
    /\ calls' = Append(calls, visited + 1)
    /\ summaries' = Append(Append(summaries, success_entry(visited + 1, "None")),
                           error_entry(visited + 1, NoneTypeError))
    /\ counts' = [counts EXCEPT !.success_count = @ + 1, !.error_count = @ + 1]
    /\ bpc' = IF stops_processing(get_error_message(NoneTypeError), NoneTypeError)
              THEN "stopped" ELSE "loop"
    /\ UNCHANGED <<paper_vars, filter_vars, stats_vars, repo_vars, api_key, report, delay>>

\* one pass of the loop in which summarize_text raises: the except clause, with the break
SummarizeFails ==
    /\ NextPaper
    /\ all_papers.papers[visited + 1].paper.abstract # ""
    /\ visited' = visited + 1
    /\ calls' = Append(calls, visited + 1)
    /\ \E e \in ErrorTexts :
          /\ summaries' = Append(summaries, error_entry(visited + 1, e))
          /\ bpc' = IF stops_processing(get_error_message(e), e) THEN "stopped" ELSE "loop"
    /\ counts' = [counts EXCEPT !.error_count = @ + 1]
    /\ UNCHANGED <<paper_vars, filter_vars, stats_vars, repo_vars, api_key, report, delay>>

\* after the loop: the summaries and the counts are written to the output file
WriteReport ==
    /\ bpc = "stopped" \/ (bpc = "loop" /\ visited = Len(all_papers.papers))
    /\ report' = [written |-> TRUE, total |-> Len(summaries), success |-> counts.success_count,
                  errors |-> counts.error_count, skipped |-> counts.skipped_count]
    /\ bpc' = "done"
    /\ UNCHANGED <<paper_vars, filter_vars, stats_vars, repo_vars, api_key, visited, summaries,
                   counts, calls, delay>>

NextFilter == FilterFromFiles

NextBatch ==
    \/ StartBatch
    \/ SkipPaper
    \/ SummarizeSucceeds
    \/ SleepFails
    \/ SummarizeReturnsNone
    \/ SummarizeFails
    \/ WriteReport

NextRepo == LoadAllPapers

NextCount == CountOccurrences

NextStats == BuildKeywordStats \/ TotalOccurrences \/ PapersWithKeyword

NextTop == TopNIndices

Spec == Init /\ [][Next]_vars

SpecMatch == InitMatch /\ [][NextMatch]_vars

SpecFilter == InitFilter /\ [][NextFilter]_vars

SpecRepo == InitRepo /\ [][NextRepo]_vars

SpecBatch == InitBatch /\ [][NextBatch]_vars

SpecCount == InitCount /\ [][NextCount]_vars

SpecStats == InitStats /\ [][NextStats]_vars

SpecTop == InitTop /\ [][NextTop]_vars

(***************************************************************************)
(* Properties of Paper construction (Spec)                                 *)
(***************************************************************************)
Loaded == pc = "constructed" /\ Readable(file)

LabeledSteps == {"labeled_lines", "labeled_abstract"}

HeuristicSteps ==
    {"title_scan", "title_fallback", "author_lines", "parse_authors",
     "abstract_marker", "abstract_search", "category_search"}

RanLabeled == steps \cap LabeledSteps # {}

RanHeuristic == steps \cap HeuristicSteps # {}

\* C1: a labeled file with the lines Title: X, Authors: A, B, Category: C and the
\* text Abstract: D loads as title X, authors [A, B], category C and abstract D,
\* whatever X, A, B, C and D are (field tokens inside the values included).
C1_LabeledFieldsVerbatim ==
    (Loaded /\ input.family = "labeled") =>
        /\ title = input.parts[1]
        /\ authors = <<input.parts[2], input.parts[3]>>
        /\ category = input.parts[4]
        /\ abstract = input.parts[5]

\* number of line breaks before position p of the text
NewlinesBefore(text, p) == Cardinality({q \in 1..(p - 1) : Char(text, q) = "\n"})

BlankChars == {" ", "\t"}

\* a line that begins, after leading blanks, with Title: starts among the first n lines
TitleLabelWithin(text, n) ==
    \E p \in 1..Len(text) :
        /\ p = 1 \/ Char(text, p - 1) = "\n"
        /\ NewlinesBefore(text, p) < n
        /\ LET q == SkipIn(text, p, BlankChars) IN Slice(text, q, q + 5) = "Title:"

\* C2: the labeled steps run exactly when a line among the first 20 starts with
\* Title: after trimming, otherwise exactly the heuristic steps run; a labeled
\* load leaves every field without its label at the default.
C2_DispatchByFirstLines ==
    Loaded =>
        /\ RanLabeled <=> TitleLabelWithin(file.content, HeadLines)
        /\ RanLabeled <=> ~RanHeuristic
        /\ RanLabeled => steps = LabeledSteps
        /\ RanLabeled /\ ~in("Authors:", file.content) => authors = <<>>
        /\ RanLabeled /\ ~in("Category:", file.content) => category = ""
        /\ RanLabeled /\ ~in("Abstract:", file.content) => abstract = ""

\* a file whose only Title: line lies behind the first 20 lines was loaded heuristically
C2_Witness ==
    /\ Loaded
    /\ input.family = "padded" /\ input.pad >= HeadLines
    /\ in("\nTitle: Late Label", file.content)
    /\ RanHeuristic /\ title # "Late Label"

\* C3: a file that cannot be opened or decoded gives a Paper with all four fields at
\* their defaults and one diagnostic; whenever a diagnostic was printed the fields
\* are at their defaults.
C3_FailureLeavesDefaults ==
    pc = "constructed" =>
        /\ ~Readable(file) => printed = 1
        /\ printed > 0 => self = EmptyPaper /\ steps = {}

C3_Witness ==
    pc = "constructed" /\ file.kind = "undecodable" /\ file.content # "" /\ printed = 1

\* C4: in a labeled file the abstract is the trimmed text after the first
\* occurrence of Abstract:, however many occurrences follow, and empty without one.
C4_AbstractAfterFirstMarker ==
    (Loaded /\ RanLabeled) =>
        abstract = IF in("Abstract:", file.content)
                   THEN strip(Suffix(file.content, find(file.content, "Abstract:", 1) + 8))
                   ELSE ""

\* the numbered heading ^\d+\s+(INTRODUCTION|Introduction|INTRO): d digits, w blanks, the word
NumberedIntro(l) ==
    \E d \in 1..Len(l), w \in 1..Len(l) :
        /\ \A k \in 1..d : IsDigit(Char(l, k))
        /\ \A k \in (d + 1)..(d + w) : IsSpace(Char(l, k))
        /\ Slice(l, d + w + 1, d + w + 5) = "INTRO" \/ Slice(l, d + w + 1, d + w + 12) = "Introduction"

\* a line that ends the abstract: a numbered introduction heading or a keywords line
ClaimBoundary(l) ==
    \/ NumberedIntro(strip(l))
    \/ Slice(upper(strip(l)), 1, 9) = "KEY WORDS"
    \/ Slice(upper(strip(l)), 1, 8) = "KEYWORDS"

\* an ABSTRACT marker line
ClaimMarker(l) ==
    LET u == upper(strip(l)) IN
    u = "ABSTRACT" \/ (Slice(u, 1, 8) = "ABSTRACT" /\ Len(u) < 20)

HeaderWords == {"preprint", "doi:", "accepted", "received"}

\* a line the title scan takes as part of the title
TitleCandidate(l) ==
    /\ Len(strip(l)) >= 10
    /\ ~isupper(l)
    /\ \A w \in HeaderWords : ~in(w, lower(l))
    /\ \A k \in 1..5 : ~IsDigit(Char(strip(l), k))
    /\ Char(strip(l), 1) # "*"

\* an author line the title scan stops at and that names an author before its first comma
AuthorCandidate(l) ==
    /\ Len(strip(l)) >= 10
    /\ IsDigit(Char(strip(l), 1))
    /\ ~isupper(l)
    /\ \A w \in HeaderWords : ~in(w, lower(l))
    /\ ~in("@", l) /\ ~in("ORCID:", l)
    /\ LET first == split(l, ",")[1] IN
          /\ ~\E p \in 1..Len(first) :
                IsSpace(Char(first, p)) /\ Slice(first, p + 1, p + 3) = "and" /\ IsSpace(Char(first, p + 4))
          /\ Len(strip(sub_marks(first))) > 2

\* the raw layout: line 3 a header, lines 4-5 the title, line 6 the authors,
\* line 8 the ABSTRACT marker, lines 9-10 the body, line 11 the closing heading
RawLayout ==
    /\ Loaded /\ input.family = "raw"
    /\ isupper(input.parts[3])
    /\ IsDigit(Char(input.parts[6], 1))
    /\ ClaimMarker(input.parts[8])

\* C5: a raw file with a short ALL-CAPS header on line 3, a two-line title, an author
\* line starting with a digit, an ABSTRACT marker, two lines of body text and an
\* INTRODUCTION heading loads with the title lines joined, at least one author and
\* the two body lines joined as the abstract.
C5_RawEndToEnd ==
    (/\ RawLayout
     /\ Len(input.parts[3]) < 10
     /\ strip(input.parts[9]) # "" /\ strip(input.parts[10]) # ""
     /\ in("INTRODUCTION", input.parts[11]))
    => /\ title = input.parts[4] \o " " \o input.parts[5]
       /\ authors # <<>>
       /\ abstract = input.parts[9] \o " " \o input.parts[10]

\* C5 (amended): the same holds when the lines before the header are blank, both
\* title lines are title candidates, no line before the marker is a marker, the
\* author line is a candidate followed by a blank line, the body lines are not
\* blank and not boundaries, and the closing heading is a numbered one.
C5_RawEndToEndWellFormed ==
    (/\ RawLayout
     /\ strip(input.parts[1]) = "" /\ strip(input.parts[2]) = ""
     /\ TitleCandidate(input.parts[4]) /\ TitleCandidate(input.parts[5])
     /\ \A k \in 1..7 : ~ClaimMarker(input.parts[k])
     /\ AuthorCandidate(input.parts[6]) /\ strip(input.parts[7]) = ""
     /\ \A k \in {9, 10} : strip(input.parts[k]) # "" /\ ~ClaimBoundary(input.parts[k])
     /\ NumberedIntro(strip(input.parts[11])))
    => /\ title = strip(input.parts[4]) \o " " \o strip(input.parts[5])
       /\ authors # <<>>
       /\ abstract = strip(input.parts[9]) \o " " \o strip(input.parts[10])

C5_Witness ==
    /\ RawLayout
    /\ input.parts[3] = "THE ASTROPHYSICAL JOURNAL"
    /\ title = "Dust in Galaxies of the Local Group"
    /\ authors = <<"Ann Lee", "Bob Roe">>
    /\ abstract = "We map dust. It is cold."
    /\ input.parts[11] = "1 INTRODUCTION"

\* C6: with an ABSTRACT marker line at m, the heuristic abstract is the trimmed
\* non-blank lines strictly between m and the first later boundary line (all the
\* remaining lines without one), joined by single spaces.
C6_AbstractStopsAtBoundary ==
    LET lines == split(file.content, "\n")
        marks == {i \in 1..Len(lines) : ClaimMarker(lines[i])}
    IN (Loaded /\ RanHeuristic /\ marks # {}) =>
          LET m == Min(marks)
              later == {j \in (m + 1)..Len(lines) : ClaimBoundary(lines[j])}
              b == IF later = {} THEN Len(lines) + 1 ELSE Min(later)
              between == SubSeq(lines, m + 1, b - 1)
          IN abstract = join(" ", SelectSeq(strip_all(between), NonEmpty))

C6_Witness ==
    /\ Loaded /\ "abstract_marker" \in steps
    /\ abstract = "We map dust. It is cold."
    /\ in("\nKey words: dust\nGalaxies are big.", file.content)

\* C7: every entry of authors is non-empty after trimming and removing digits and
\* the markers * and U+2605, whichever path built the list.
C7_AuthorsNonEmptyAfterStripping ==
    pc = "constructed" =>
        \A i \in 1..Len(authors) : strip(sub_marks(strip(authors[i]))) # ""

\* C7 (amended): every entry is non-empty after trimming; the entries of the
\* heuristic path are also non-empty after removing digits and markers.
C7_AuthorsNonEmpty ==
    pc = "constructed" =>
        \A i \in 1..Len(authors) :
            /\ strip(authors[i]) # ""
            /\ RanHeuristic => strip(sub_marks(strip(authors[i]))) # ""

C7_Witness ==
    /\ Loaded /\ RanHeuristic
    /\ in("22*", file.content)
    /\ authors = <<"Ann Lee", "Bob Roe">>

(***************************************************************************)
(* Properties of the keyword matcher (SpecMatch) and the filter (SpecFilter) *)
(***************************************************************************)
\* k occurs in text as a substring, at any position
Occurs(k, text) == \E p \in 1..(Len(text) + 1) : Slice(text, p, p + Len(k) - 1) = k

Fold(case_sensitive, text) == IF case_sensitive THEN text ELSE lower(text)

\* the substring rule: some keyword occurs in title + " " + abstract
SubstringRule(p, keywords, case_sensitive) ==
    \E i \in 1..Len(keywords) :
        Occurs(Fold(case_sensitive, keywords[i]), Fold(case_sensitive, p.title \o " " \o p.abstract))

\* C8: contains_keywords is True for an empty keyword list, and otherwise True exactly
\* when some keyword occurs as a substring of title + " " + abstract, both lowercased
\* unless case_sensitive; a keyword inside a longer word counts.
C8_ContainsIsSubstringRule ==
    query.op = "contains_keywords" =>
        query.found = (query.keywords = <<>>
                       \/ SubstringRule(self, query.keywords, query.case_sensitive))

C8_Witness ==
    /\ query.op = "contains_keywords"
    /\ title = "Stardust" /\ query.keywords = <<"dust">> /\ query.case_sensitive
    /\ query.found

\* C9: get_matching_keywords returns, in input order and original casing, exactly the
\* keywords that satisfy the substring rule; it is empty for an empty list, and for a
\* non-empty list it is non-empty exactly when contains_keywords is True.
C9_MatchingIsSubsequence ==
    query.op = "get_matching_keywords" =>
        LET Hit(k) == SubstringRule(self, <<k>>, query.case_sensitive) IN
        /\ query.matching = SelectSeq(query.keywords, Hit)
        /\ query.keywords = <<>> => query.matching = <<>>
        /\ query.keywords # <<>> =>
              (query.matching # <<>> <=> contains_keywords(self, query.keywords, query.case_sensitive))

C9_Witness ==
    /\ query.op = "get_matching_keywords"
    /\ ~query.case_sensitive
    /\ query.keywords = <<"Local Group", "Galax">>
    /\ abstract = "We map the local group."
    /\ query.matching = <<"Local Group", "Galax">>

\* C10: filter_papers_by_keywords returns exactly the papers for which contains_keywords
\* is True, in input order; keywords None stands for the default list and an empty
\* list returns every paper.
C10_FilterIsSubsequence ==
    call.done =>
        LET kws == IF call.keywords.is_none THEN DEFAULT_ASTROPHYSICS_KEYWORDS ELSE call.keywords.list
            Keep(p) == kws = <<>> \/ SubstringRule(p, kws, call.case_sensitive)
        IN /\ Len(papers) = Len(file_paths)
           /\ filtered = SelectSeq(papers, Keep)
           /\ kws = <<>> => filtered = papers

C10_Witness ==
    /\ call.done /\ call.keywords.is_none
    /\ Len(papers) = 2 /\ papers[1].abstract = "no DUST"
    /\ filtered = <<papers[2]>> /\ papers[2].title = "Stardust"

(***************************************************************************)
(* Properties of the heuristic author lines and title (Spec)              *)
(***************************************************************************)
\* the lines of the file, as load_paper splits them
FileLines == split(file.content, "\n")

\* an author condition holds of the line: a digit among the first 10 characters of
\* the trimmed line, an "@" or a "*" (a line starting with "1" or "*" is one of these)
AuthorCondition(l) ==
    \/ \E k \in 1..10 : IsDigit(Char(strip(l), k))
    \/ in("@", l)
    \/ in("*", l)

\* the line mentions an affiliation
MentionsAffiliation(l) ==
    \E w \in {"department", "university", "institute", "school"} : in(w, lower(l))

\* the stripped lines at the 0-based positions from..(to - 1) that satisfy an author condition
RECURSIVE MatchingLines(_, _, _)
MatchingLines(lines, from, to) ==
    IF from >= to THEN <<>>
    ELSE (IF AuthorCondition(lines[from + 1]) THEN <<strip(lines[from + 1])>> ELSE <<>>)
         \o MatchingLines(lines, from + 1, to)

\* C17: the collected author lines are a consecutive run of lines beginning at
\* author_start_idx, at most 10 long, that ends before the first blank line and
\* before the first line that satisfies no author condition; no line after such a
\* line is collected.
C17_AuthorLinesConsecutive ==
    (Loaded /\ RanHeuristic /\ locals.author_start_idx # None) =>
        \A lines \in {FileLines} : \A a \in {locals.author_start_idx} :
        \A last \in {Min({Len(lines), a + AuthorWindow})} :
        \A stops \in {{j \in a..(last - 1) :
                          strip(lines[j + 1]) = "" \/ ~AuthorCondition(lines[j + 1])}} :
        \A stop \in {IF stops = {} THEN last ELSE Min(stops)} :
            locals.author_lines = strip_all(SubSeq(lines, a + 1, stop))

\* C17 (amended): collection looks at no more than 10 lines from author_start_idx and
\* stops at the first blank line and at the first line that satisfies no author
\* condition and mentions an affiliation; a line that satisfies no author condition
\* and mentions no affiliation is passed over, so the collected lines are exactly
\* the lines before the stop that satisfy an author condition, in order.
C17_AuthorLinesUpToAffiliation ==
    (Loaded /\ RanHeuristic /\ locals.author_start_idx # None) =>
        \A lines \in {FileLines} : \A a \in {locals.author_start_idx} :
        \A last \in {Min({Len(lines), a + AuthorWindow})} :
        \A stops \in {{j \in a..(last - 1) :
                          \/ strip(lines[j + 1]) = ""
                          \/ ~AuthorCondition(lines[j + 1]) /\ MentionsAffiliation(lines[j + 1])}} :
        \A stop \in {IF stops = {} THEN last ELSE Min(stops)} :
            locals.author_lines = MatchingLines(lines, a, stop)

C17_Witness ==
    /\ Loaded /\ locals.author_start_idx = 2
    /\ Len(FileLines) >= 6
    /\ SubSeq(FileLines, 3, 6) = <<"1 Ann Lee, 2 Bo Roe", "and Cy Day", "3 Dee Poe*", "University of Dust">>
    /\ locals.author_lines = <<"1 Ann Lee, 2 Bo Roe", "3 Dee Poe*">>

\* the line is longer than 10 characters once trimmed
LongLine(l) == Len(strip(l)) > 10

\* the line ends the title fallback: a digit among its first 5 characters, or an "@"
FallbackStop(l) == (\E k \in 1..5 : IsDigit(Char(strip(l), k))) \/ in("@", l)

\* the stripped long lines at the 0-based positions from..(to - 1)
RECURSIVE LongLines(_, _, _)
LongLines(lines, from, to) ==
    IF from >= to THEN <<>>
    ELSE (IF LongLine(lines[from + 1]) THEN <<strip(lines[from + 1])>> ELSE <<>>)
         \o LongLines(lines, from + 1, to)

\* the long lines at positions 1..5, as far as they exist, before the first long line
\* that ends the fallback, joined by single spaces
FallbackTitle ==
    LET last == Min({Len(FileLines), 6})
        stops == {j \in 1..(last - 1) :
                     LongLine(FileLines[j + 1]) /\ FallbackStop(FileLines[j + 1])}
        stop == IF stops = {} THEN last ELSE Min(stops)
    IN join(" ", LongLines(FileLines, 1, stop))

\* C18: the title fallback runs if and only if the title scan left the title empty;
\* for every unlabeled document, of any number of lines, whose scan produced no title
\* the title is the long lines at positions 1..5 up to the first one that has a digit
\* among its first 5 characters or contains "@", joined by single spaces; a title
\* the scan produced is never changed.
C18_FallbackAnyLength ==
    (Loaded /\ RanHeuristic) =>
        /\ "title_fallback" \in steps <=> locals.scan_title = ""
        /\ locals.scan_title = "" => title = FallbackTitle
        /\ locals.scan_title # "" => title = locals.scan_title

\* C18 (amended): the title fallback runs if and only if the title scan left the
\* title empty and the document has more than two lines; then the title is the long
\* lines at positions 1..5 up to the first one that has a digit among its first 5
\* characters or contains "@", joined by single spaces; in a document of one or two
\* lines the title stays empty, and a title the scan produced is never changed.
C18_FallbackOverTwoLines ==
    (Loaded /\ RanHeuristic) =>
        /\ "title_fallback" \in steps <=> (locals.scan_title = "" /\ Len(FileLines) > 2)
        /\ (locals.scan_title = "" /\ Len(FileLines) > 2) => title = FallbackTitle
        /\ (locals.scan_title = "" /\ Len(FileLines) <= 2) => title = ""
        /\ locals.scan_title # "" => title = locals.scan_title

\* the fallback took the long lines at positions 1..5 of a longer document and left
\* out the long lines after them
C18_Witness ==
    /\ Loaded /\ "title_fallback" \in steps
    /\ Len(FileLines) > 6 /\ LongLine(FileLines[7])
    /\ title = join(" ", SubSeq(FileLines, 2, 6))

\* the fallback stopped at a long line with an "@" and kept the long line before it
C18_WitnessStop ==
    /\ Loaded /\ "title_fallback" \in steps
    /\ FileLines = <<"", "Dust in Galaxies", "ann.lee@dust.org">>
    /\ title = "Dust in Galaxies"

\* the title scan skips the line: blank or under 10 characters once trimmed, fully
\* upper case, or mentioning preprint, doi:, accepted or received in any case
ScanSkips(l) ==
    \/ Len(strip(l)) < 10
    \/ isupper(strip(l))
    \/ \E w \in HeaderWords : in(w, lower(l))

\* the trimmed line has a digit among its first 5 characters or starts with "*"
AuthorMark(l) == (\E k \in 1..5 : IsDigit(Char(strip(l), k))) \/ Char(strip(l), 1) = "*"

\* the stripped lines at the 0-based positions from..(to - 1) that the scan does not skip
RECURSIVE ScannedLines(_, _, _)
ScannedLines(lines, from, to) ==
    IF from >= to THEN <<>>
    ELSE (IF ScanSkips(lines[from + 1]) THEN <<>> ELSE <<strip(lines[from + 1])>>)
         \o ScannedLines(lines, from + 1, to)

\* the 0-based positions, among the first 20 lines, of the lines that are not
\* skipped and carry an author mark
AuthorMarks(lines) ==
    {j \in 0..(Min({Len(lines), 20}) - 1) :
        ~ScanSkips(lines[j + 1]) /\ AuthorMark(lines[j + 1])}

\* C19: over the first 20 lines, skipping blank lines, lines under 10 characters,
\* upper-case lines and lines with preprint/doi:/accepted/received, the first
\* remaining line with a digit among its first 5 characters or a leading "*" becomes
\* author_start_idx, and the title of this step is the earlier lines that were not
\* skipped, joined by single spaces; without such a line among the first 20 the step
\* sets no title, author_start_idx stays unset and no authors are extracted.
C19_TitleScan ==
    (Loaded /\ RanHeuristic) =>
        \A lines \in {FileLines} : \A marks \in {AuthorMarks(lines)} :
            IF marks # {}
            THEN \A first \in {Min(marks)} :
                    /\ locals.author_start_idx = first
                    /\ locals.scan_title = join(" ", ScannedLines(lines, 0, first))
            ELSE /\ locals.author_start_idx = None
                 /\ locals.scan_title = ""
                 /\ "author_lines" \notin steps
                 /\ locals.author_lines = <<>>
                 /\ authors = <<>>

\* the scan passed over a skipped line, took a title line and stopped at the author line
C19_Witness ==
    /\ Loaded /\ RanHeuristic
    /\ Len(FileLines) >= 3
    /\ ScanSkips(FileLines[1]) /\ strip(FileLines[1]) # ""
    /\ ~ScanSkips(FileLines[2]) /\ ~AuthorMark(FileLines[2])
    /\ locals.author_start_idx = 2
    /\ locals.scan_title = strip(FileLines[2])

\* an author line at position 20 or later is not seen by the scan
C19_WitnessBeyondWindow ==
    /\ Loaded /\ RanHeuristic
    /\ Len(FileLines) > 20
    /\ \E j \in 21..Len(FileLines) : ~ScanSkips(FileLines[j]) /\ AuthorMark(FileLines[j])
    /\ locals.author_start_idx = None /\ authors = <<>>

(***************************************************************************)
(* Properties of the occurrence count (SpecCount)                          *)
(***************************************************************************)
\* the maximal runs of characters of s that are not white space
RECURSIVE Words(_)
Words(s) ==
    LET a == SkipIn(s, 1, Spaces) IN
    IF a > Len(s) THEN <<>>
    ELSE <<Slice(s, a, SkipNotIn(s, a, Spaces) - 1)>>
         \o Words(Slice(s, SkipNotIn(s, a, Spaces), Len(s)))

\* s with every run of white space taken as one space and none at its ends, in lower case
Collapsed(s) == lower(join(" ", Words(s)))

LettersAndDigits == Digits \cup UpperSet \cup LowerSet

\* the keyword is not empty, contains no space and is alphanumeric
PlainToken(k) == k # "" /\ \A i \in 1..Len(k) : Char(k, i) \in LettersAndDigits

\* a word boundary lies before position p of t: the text starts or ends there, or a
\* character that is no letter, digit or underscore stands on one side
Delimited(t, p, len) ==
    /\ p = 1 \/ Char(t, p - 1) \notin (LettersAndDigits \cup {"_"})
    /\ p + len > Len(t) \/ Char(t, p + len) \notin (LettersAndDigits \cup {"_"})

\* the positions at which k occurs in t
Occurrences(t, k) == {p \in 1..(Len(t) - Len(k) + 1) : Slice(t, p, p + Len(k) - 1) = k}

\* the occurrences taken from left to right, each the first that does not overlap
\* the ones taken before it
LeftToRight(occs, len) ==
    CHOOSE G \in SUBSET occs : \A p \in occs : p \in G <=> \A q \in G : q < p => q + len <= p

\* C11: for a keyword without a space that is alphanumeric the count is the number
\* of case-insensitive occurrences of the keyword in the whitespace-normalized text
\* that have a word boundary on both sides; an occurrence inside a larger word is
\* not counted: "starburst galaxies" gives 0 for "star" and 1 for "galaxies".
C11_WholeWordCount ==
    (occ.done /\ PlainToken(occ.keyword)) =>
        \A t \in {Collapsed(occ.text)} : \A k \in {lower(occ.keyword)} :
            /\ occ.count = Cardinality({p \in Occurrences(t, k) : Delimited(t, p, Len(k))})
            /\ (occ.text = "starburst galaxies" /\ occ.keyword = "star") => occ.count = 0
            /\ (occ.text = "starburst galaxies" /\ occ.keyword = "galaxies") => occ.count = 1

\* of three occurrences only the one that stands alone was counted
C11_Witness ==
    /\ occ.done /\ occ.keyword = "star" /\ occ.text = "a star_burst, a 2star and a star."
    /\ Cardinality(Occurrences(Collapsed(occ.text), "star")) = 3
    /\ occ.count = 1

\* C12: for a keyword with a space or a non-alphanumeric character the count is the
\* number of non-overlapping case-insensitive occurrences, from left to right, of the
\* whitespace-normalized keyword in the whitespace-normalized text; a keyword that is
\* empty after normalization counts 0.
C12_PhraseCountByKeyword ==
    (occ.done /\ ~PlainToken(occ.keyword)) =>
        \A t \in {Collapsed(occ.text)} : \A k \in {Collapsed(occ.keyword)} :
            IF k = "" THEN occ.count = 0
            ELSE occ.count = Cardinality(LeftToRight(Occurrences(t, k), Len(k)))

\* C12 (amended): the policy is chosen by the whitespace-normalized keyword; when
\* that contains a space or a non-alphanumeric character the count is the number of
\* non-overlapping case-insensitive occurrences of it, from left to right, in the
\* whitespace-normalized text; when it is empty the count is 0; when it is a single
\* alphanumeric token only the occurrences with a word boundary on both sides count.
C12_PhraseCountByNormalizedKeyword ==
    occ.done =>
        \A t \in {Collapsed(occ.text)} : \A k \in {Collapsed(occ.keyword)} :
            IF k = "" THEN occ.count = 0
            ELSE IF PlainToken(k)
            THEN occ.count = Cardinality({p \in Occurrences(t, k) : Delimited(t, p, Len(k))})
            ELSE occ.count = Cardinality(LeftToRight(Occurrences(t, k), Len(k)))

\* a phrase written with two spaces and a capital was counted twice, and of three
\* overlapping occurrences of a phrase two were counted
C12_Witness ==
    /\ occ.done
    /\ \/ /\ occ.text = "observed dark matter halo and dark matter density"
          /\ occ.keyword = "dark  Matter" /\ occ.count = 2
       \/ /\ occ.text = "aa aa aa  aa" /\ occ.keyword = "aa aa"
          /\ Cardinality(Occurrences(Collapsed(occ.text), "aa aa")) = 3 /\ occ.count = 2

(***************************************************************************)
(* Properties of the keyword statistics (SpecStats, SpecTop)               *)
(***************************************************************************)
\* the occurrences of keyword kw counted in the text of a paper: whole words for a
\* single alphanumeric token, non-overlapping substrings otherwise
CountedIn(paper, kw) ==
    LET Counted(t, k) ==
            IF k = "" THEN 0
            ELSE IF PlainToken(k)
            THEN Cardinality({p \in Occurrences(t, k) : Delimited(t, p, Len(k))})
            ELSE Cardinality(LeftToRight(Occurrences(t, k), Len(k)))
    IN Counted(Collapsed(paper.title \o " " \o paper.abstract), Collapsed(kw))

\* C13: the matrix has one row per input paper, in input order, and every row one
\* column per input keyword, in input order, each entry an integer >= 0 (the count
\* of that keyword in that paper); there is one label per paper, and keywords is
\* the input keyword list.
C13_MatrixShape ==
    stats.built =>
        /\ Len(stats.matrix) = Len(stat_args.papers)
        /\ Len(stats.paper_labels) = Len(stat_args.papers)
        /\ stats.keywords = stat_args.keywords
        /\ \A p \in 1..Len(stats.matrix) :
              /\ Len(stats.matrix[p]) = Len(stat_args.keywords)
              /\ \A k \in 1..Len(stats.matrix[p]) :
                    /\ stats.matrix[p][k] \in Nat
                    /\ stats.matrix[p][k] = CountedIn(stat_args.papers[p], stat_args.keywords[k])

\* two papers and two keywords gave a 2 x 2 matrix with different rows
C13_Witness ==
    /\ stats.built
    /\ Len(stat_args.papers) = 2 /\ Len(stat_args.keywords) = 2
    /\ stats.matrix = <<<<2, 1>>, <<0, 2>>>>

\* the sum of column k over the rows 1..p
RECURSIVE ColumnTotal(_, _, _)
ColumnTotal(matrix, k, p) ==
    IF p = 0 THEN 0 ELSE ColumnTotal(matrix, k, p - 1) + matrix[p][k]

\* C14: total_occurrences()[k] is the sum of column k over all rows and
\* papers_with_keyword()[k] the number of rows whose column k is > 0; both lists
\* have one entry per keyword, all of them 0 when there are no papers.
C14_ColumnAggregates ==
    /\ totals.totals_done =>
          /\ Len(totals.total_occurrences) = Len(stats.keywords)
          /\ \A k \in 1..Len(stats.keywords) :
                /\ totals.total_occurrences[k] = ColumnTotal(stats.matrix, k, Len(stats.matrix))
                /\ stats.matrix = <<>> => totals.total_occurrences[k] = 0
    /\ totals.presence_done =>
          /\ Len(totals.papers_with_keyword) = Len(stats.keywords)
          /\ \A k \in 1..Len(stats.keywords) :
                /\ totals.papers_with_keyword[k]
                      = Cardinality({p \in 1..Len(stats.matrix) : stats.matrix[p][k] > 0})
                /\ stats.matrix = <<>> => totals.papers_with_keyword[k] = 0

\* a column with 1 and 2 occurrences in two papers, next to one present in one paper
C14_Witness ==
    /\ totals.totals_done /\ totals.presence_done
    /\ stats.matrix = <<<<2, 1>>, <<0, 2>>>>
    /\ totals.total_occurrences = <<2, 3>>
    /\ totals.papers_with_keyword = <<1, 2>>

\* index i comes before index j in the selection order: a larger value, or an equal
\* value and a smaller index (indices are 0-based)
Before(values, i, j) ==
    \/ values[i + 1] > values[j + 1]
    \/ values[i + 1] = values[j + 1] /\ i < j

\* C15: for n >= 0 the result holds min(n, len(values)) distinct indices, those of
\* the n largest values, in descending order of the values and, among equal values,
\* in ascending order of the indices; [3, 1, 4, 1, 5] with n = 2 gives [4, 2].
C15_TopNStable ==
    (top.done /\ top.n >= 0) =>
        /\ Len(top.result) = Min({top.n, Len(top.values)})
        /\ \A r \in 1..Len(top.result) : top.result[r] \in 0..(Len(top.values) - 1)
        /\ \A r \in 1..(Len(top.result) - 1) : Before(top.values, top.result[r], top.result[r + 1])
        /\ \A r \in 1..Len(top.result) : \A j \in 0..(Len(top.values) - 1) :
              (\A q \in 1..Len(top.result) : top.result[q] # j) => Before(top.values, top.result[r], j)
        /\ (top.values = <<3, 1, 4, 1, 5>> /\ top.n = 2) => top.result = <<4, 2>>

\* of two equal largest values the one with the smaller index came first
C15_Witness ==
    /\ top.done
    /\ top.values = <<1, 2, 2>> /\ top.n = 2 /\ top.result = <<1, 2>>

\* the example of the specification
C15_WitnessExample ==
    /\ top.done
    /\ top.values = <<3, 1, 4, 1, 5>> /\ top.n = 2 /\ top.result = <<4, 2>>

(***************************************************************************)
(* Properties of the paper repository (SpecRepo)                           *)
(***************************************************************************)
\* the numbers of the files that exist, and of those that do not
Existing == {i \in 1..10 : repo[i].kind # "missing"}

Missing == (1..10) \ Existing

QuotaFailure(entry) ==
    entry.status = "error" /\ Slice(entry.summary, 1, 22) = "Error: Quota exceeded."

\* the entry records a failure of another class: auth, rate limit, timeout or other
OtherFailure(entry) == entry.status = "error" /\ ~QuotaFailure(entry)

\* the loop was left before the last loaded paper
HaltedEarly == bpc \in {"stopped", "done"} /\ visited < Len(all_papers.papers)

\* C20: the loop is halted early only by a quota failure: after a failure classified
\* as auth, rate limit, timeout or other the loop goes on with the next paper, and
\* after a failure classified as quota no later paper is passed to the summarizer
\* and no further entry is recorded.
C20_OnlyQuotaHaltsBatch ==
    /\ HaltedEarly => summaries # <<>> /\ QuotaFailure(summaries[Len(summaries)])
    /\ (summaries # <<>> /\ OtherFailure(summaries[Len(summaries)])
            /\ visited < Len(all_papers.papers)) => bpc = "loop"
    /\ \A r \in 1..Len(summaries) :
          QuotaFailure(summaries[r]) =>
              /\ r = Len(summaries)
              /\ \A c \in 1..Len(calls) : calls[c] <= summaries[r].paper_number

\* the entries recorded for paper number i
EntriesOf(i) == {r \in 1..Len(summaries) : summaries[r].paper_number = i}

\* C21: at every point of the loop and at the end the three counts add up to the
\* number of recorded entries, which is the number of papers visited so far and at
\* most the number of loaded papers; each visited paper has exactly one entry, of
\* status success, error or skipped; the summarizer is called only for papers with
\* an abstract; with the credential the report with these counts is written at the
\* end, after an early halt as well; without it no paper is processed and nothing
\* is written.
C21_BatchAccounting ==
    /\ counts.success_count + counts.error_count + counts.skipped_count = Len(summaries)
    /\ Len(summaries) = visited
    /\ visited <= Len(all_papers.papers)
    /\ \A i \in 1..visited :
          /\ Cardinality(EntriesOf(i)) = 1
          /\ \A r \in EntriesOf(i) : summaries[r].status \in {"success", "error", "skipped"}
    /\ \A c \in 1..Len(calls) : all_papers.papers[calls[c]].paper.abstract # ""
    /\ bpc = "done" =>
          /\ api_key # ""
          /\ report = [written |-> TRUE, total |-> Len(summaries),
                       success |-> counts.success_count, errors |-> counts.error_count,
                       skipped |-> counts.skipped_count]
    /\ bpc = "returned" => api_key = ""
    /\ api_key = "" =>
          visited = 0 /\ summaries = <<>> /\ calls = <<>> /\ ~report.written

====
